---------------------------- MODULE Spec2Model ----------------------------
(***************************************************************************)
(* Model of the AI-Agents backend: the agent execution loop with artifact  *)
(* extraction (agents/base_agent.py), the HTTP chat endpoint and session   *)
(* registry (api/routes.py), the streaming socket endpoint                 *)
(* (api/websocket.py) and the artifact store                               *)
(* (artifacts/artifact_manager.py).                                        *)
(*                                                                         *)
(* Text is a sequence of lexemes.  The lexemes are the pieces of text the  *)
(* artifact pattern of _process_response tells apart:                      *)
(*   "L"  <artifact type="          (the tag name, blank, type=, quote)    *)
(*   "G"  " language="              (closing quote, blank, language=")     *)
(*   "T"  " title="                 (closing quote, blank, title=")        *)
(*   "Q"  ">                        (closing quote, end of opening tag)    *)
(*   "E"  </artifact>                                                      *)
(*   "x"  one character that is no quote and no blank                      *)
(*   "s"  one blank character                                              *)
(*   "P"  [Artifact created]        (the placeholder re.sub writes)        *)
(***************************************************************************)
EXTENDS Integers, Sequences, FiniteSets, TLC

\* Bounds of the model.
MaxChunks == 5

MaxReply == 2

MaxTurns == 2

MaxClock == 1

MaxFrames == 1
MaxQueued == 1

MaxStored == 2

\* Lexemes holding no double quote: what the class [^"] of the pattern accepts.
NonQuote == {"x", "s", "E", "P"}

\* The fragments a model reply is put together from: whole opening tags
\* with type only, with type and title, and with type, language and title,
\* an opening tag with title before language (which the pattern does not
\* accept), and the single lexemes, so that a tag may arrive whole or in
\* pieces.
Chunks ==
  { <<"L", "x", "Q">>,
    <<"L", "x", "T", "x", "Q">>,
    <<"L", "x", "G", "x", "T", "x", "Q">>,
    <<"L", "x", "T", "x", "G", "x", "Q">>,
    <<"L">>, <<"Q">>, <<"E">>, <<"x">>, <<"s">> }

\* The fragments the replies of the model are put together from in the
\* specifications of whole turns: plain text and a whole tag (type only,
\* a blank before its content).
ReplyChunks ==
  { <<"x">>,
    <<"L", "x", "Q", "s", "x", "E">> }

None == "None"

SessionIds == {"s1", "s2"}

\* What the caller of the agent passes: a message and a session id.
Requests ==
  {[content |-> "m1", session_id |-> "s1"],
   [content |-> "m2", session_id |-> "s2"]}

\* No turn begun yet.  n counts the turns begun; of the latest turn, kind
\* says how it was run, first_id is the first id not yet drawn when it
\* began, failed whether the model call or the extraction of an execute
\* raised, and manual whether add_artifact was called since.
NoTurn ==
  [n |-> 0, kind |-> None, first_id |-> 0, failed |-> FALSE, manual |-> FALSE]

BeginTurn(t, kind, id0, failed) ==
  [n |-> t.n + 1, kind |-> kind, first_id |-> id0, failed |-> failed,
   manual |-> FALSE]


VARIABLES
  raw,        \* the text handed to _process_response (extraction specification)
  extracted,  \* whether it was called (done), and its result
  clock,      \* the value datetime.now() returns
  nextId,     \* the number of uuid4 values drawn so far
  agents,     \* the agent objects: current_session_id, execution_steps, artifacts
  sessions,   \* routes.sessions
  responses,  \* the latest answer of POST /api/chat, and how many there were
  store,      \* ArtifactManager.artifacts of the global artifact_manager
  gen,        \* the stream_execute generators: where each is suspended
  events,     \* the events a generator has yielded in its turn (per agent), or
              \* the messages a socket handler has sent since its latest frame
  returned,   \* per agent, the AgentResponse its latest execute returned
  turn,       \* per agent, the number of turns begun and the first id of the latest
  conn,       \* the socket connections: where each websocket_chat task stands
  manager,    \* the ConnectionManager: active_connections and agents
  result,     \* the latest call of a session endpoint, of an ArtifactManager
              \* method or of a tool operation, with what it returned; the
              \* answer of POST /api/chat is in responses and leaves NoResult
  toolkits    \* DataAnalysisToolkit.dataframes and DocumentToolkit.documents

vars ==
  <<raw, extracted, clock, nextId, agents, sessions, responses, store, gen,
    events, returned, turn, conn, manager, result, toolkits>>

-----------------------------------------------------------------------------
(* Sequences *)

RECURSIVE Concat(_)
\* The concatenation of a sequence of sequences.
Concat(ss) == IF ss = <<>> THEN <<>> ELSE Head(ss) \o Concat(Tail(ss))

RECURSIVE Count(_, _)
\* The number of occurrences of lexeme c in t.
Count(t, c) ==
  IF t = <<>> THEN 0 ELSE (IF Head(t) = c THEN 1 ELSE 0) + Count(Tail(t), c)

-----------------------------------------------------------------------------
(* The artifact pattern,                                                   *)
(*   <artifact\s+type="([^"]+)"(?:\s+language="([^"]+)")?                  *)
(*   (?:\s+title="([^"]+)")?>(.*?)</artifact>      with re.DOTALL          *)

RECURSIVE RunLen(_, _)
\* [^"]+ from position i: the length of the longest run of quote-free lexemes.
RunLen(t, i) ==
  IF i <= Len(t) /\ t[i] \in NonQuote THEN 1 + RunLen(t, i + 1) ELSE 0

RECURSIVE FirstClose(_, _)
\* (.*?)</artifact> from position i: the position of the first </artifact>
\* at or after i, 0 when there is none.
FirstClose(t, i) ==
  IF i > Len(t) THEN 0
  ELSE IF t[i] = "E" THEN i ELSE FirstClose(t, i + 1)

\* One attempt of the pattern at position i of t: whether it matches, where
\* the match ends, and the four groups ('' for a group that took no part).
MatchAt(t, i) ==
  LET n1       == RunLen(t, i + 1)
      p1       == i + 1 + n1
      hasLang  == p1 <= Len(t) /\ t[p1] = "G" /\ RunLen(t, p1 + 1) >= 1
      p2       == IF hasLang THEN p1 + 1 + RunLen(t, p1 + 1) ELSE p1
      hasTitle == p2 <= Len(t) /\ t[p2] = "T" /\ RunLen(t, p2 + 1) >= 1
      p3       == IF hasTitle THEN p2 + 1 + RunLen(t, p2 + 1) ELSE p2
      opened   == t[i] = "L" /\ n1 >= 1 /\ p3 <= Len(t) /\ t[p3] = "Q"
      close    == IF opened THEN FirstClose(t, p3 + 1) ELSE 0
  IN  IF close = 0
      THEN [ok |-> FALSE]
      ELSE [ok       |-> TRUE,
            start    |-> i,
            end      |-> close,
            type     |-> SubSeq(t, i + 1, p1 - 1),
            language |-> IF hasLang THEN SubSeq(t, p1 + 1, p2 - 1) ELSE <<>>,
            title    |-> IF hasTitle THEN SubSeq(t, p2 + 1, p3 - 1) ELSE <<>>,
            content  |-> SubSeq(t, p3 + 1, close - 1)]

RECURSIVE FindAllFrom(_, _)
\* re.findall(artifact_pattern, response, re.DOTALL) from position i: the
\* non-overlapping matches, leftmost first.
FindAllFrom(t, i) ==
  IF i > Len(t) THEN <<>>
  ELSE LET m == MatchAt(t, i)
       IN  IF m.ok THEN <<m>> \o FindAllFrom(t, m.end + 1)
           ELSE FindAllFrom(t, i + 1)

FindAll(t) == FindAllFrom(t, 1)

RECURSIVE SubFirstFrom(_, _)
\* re.sub with count=1: only the first match is replaced.
SubFirstFrom(t, i) ==
  IF i > Len(t) THEN <<>>
  ELSE LET m == MatchAt(t, i)
       IN  IF m.ok THEN <<"P">> \o SubSeq(t, m.end + 1, Len(t))
           ELSE <<t[i]>> \o SubFirstFrom(t, i + 1)

RECURSIVE SubFrom(_, _)
\* re.sub(artifact_pattern, '[Artifact created]', response, flags=re.DOTALL)
\* from position i: every match replaced by the placeholder, the rest copied.
SubFrom(t, i) ==
  IF i > Len(t) THEN <<>>
  ELSE LET m == MatchAt(t, i)
       IN  IF m.ok THEN <<"P">> \o SubFrom(t, m.end + 1)
           ELSE <<t[i]>> \o SubFrom(t, i + 1)

Sub(t) == SubFrom(t, 1)

RECURSIVE LStrip(_)
LStrip(t) == IF t # <<>> /\ Head(t) = "s" THEN LStrip(Tail(t)) ELSE t

RECURSIVE RStrip(_)
RStrip(t) ==
  IF t # <<>> /\ t[Len(t)] = "s" THEN RStrip(SubSeq(t, 1, Len(t) - 1)) ELSE t

\* str.strip(): leading and trailing blanks removed.
Strip(t) == RStrip(LStrip(t))


-----------------------------------------------------------------------------
(* agents/base_agent.py: records *)

\* ExecutionStep(type=..., content=...): id from uuid4, timestamp from now().
ExecutionStep(id, type, content, now) ==
  [id |-> id, type |-> type, content |-> content, tool_name |-> None,
   timestamp |-> now]

\* The title of an artifact whose tag carries none: f"Artifact {n}".
AutoTitle(n) == <<"Artifact", n>>

\* Artifact(type=..., title=..., content=..., language=...): id from uuid4,
\* metadata an empty dict, created_at from now().
Artifact(id, type, title, content, language, now) ==
  [id |-> id, type |-> type, title |-> title, content |-> content,
   language |-> language, metadata |-> <<>>, created_at |-> now]

\* BaseAgent.__init__: the execution state of a new agent.
NewAgent ==
  [current_session_id |-> None, execution_steps |-> <<>>, artifacts |-> <<>>]

\* The first three statements of execute and of stream_execute keep the
\* buffers of the turn before instead of replacing them by empty lists.
ResetKeepsBuffers(a, session_id) ==
  [a EXCEPT !.current_session_id = session_id]

\* The first three statements of execute and of stream_execute.
Reset(a, session_id) ==
  [current_session_id |-> session_id, execution_steps |-> <<>>,
   artifacts |-> <<>>]

RECURSIVE ExtractArtifactsNumbersUntitled(_, _, _, _)
\* A loop that numbers the artifacts without a title among themselves.
ExtractArtifactsNumbersUntitled(artifacts, matches, id0, now) ==
  IF matches = <<>> THEN artifacts
  ELSE LET m == Head(matches)
           untitled == {i \in 1..Len(artifacts) :
                          artifacts[i].title[1] = "Artifact"}
           artifact ==
             Artifact(id0, m.type,
                      IF m.title # <<>> THEN m.title
                      ELSE AutoTitle(Cardinality(untitled) + 1),
                      Strip(m.content),
                      IF m.language # <<>> THEN m.language ELSE None,
                      now)
       IN  ExtractArtifactsNumbersUntitled(Append(artifacts, artifact),
                                           Tail(matches), id0 + 1, now)

RECURSIVE ExtractArtifacts(_, _, _, _)
\* The for loop of _process_response: one Artifact per match, appended to
\* self.artifacts in the order of the matches; ids id0, id0 + 1, ...
ExtractArtifacts(artifacts, matches, id0, now) ==
  IF matches = <<>> THEN artifacts
  ELSE LET m == Head(matches)
           artifact ==
             Artifact(id0, m.type,
                      IF m.title # <<>> THEN m.title
                      ELSE AutoTitle(Len(artifacts) + 1),
                      Strip(m.content),
                      IF m.language # <<>> THEN m.language ELSE None,
                      now)
       IN  ExtractArtifacts(Append(artifacts, artifact), Tail(matches),
                            id0 + 1, now)

\* _process_response(response) on an agent whose artifacts are `artifacts`:
\* the artifacts afterwards and the returned clean_response.
ProcessResponse(artifacts, response, id0, now) ==
  [artifacts |-> ExtractArtifacts(artifacts, FindAll(response), id0, now),
   clean     |-> Sub(response)]

\* The texts a reply of the model can be: up to MaxReply fragments.
RECURSIVE ReplyTexts(_)
ReplyTexts(n) ==
  IF n = 0 THEN {<<>>}
  ELSE ReplyTexts(n - 1) \cup
       {t \o c : t \in ReplyTexts(n - 1), c \in ReplyChunks}

\* What self.agent.run(user_message) does: it returns a response whose
\* content is a text, it returns a response whose content is None, or it
\* raises.
Replies ==
  [kind : {"content"}, content : ReplyTexts(MaxReply)] \cup
  {[kind |-> "none", content |-> <<>>], [kind |-> "raise", content |-> <<>>]}

\* str(e) of the exception a reply that is no text ends in.
ErrorText(reply) ==
  IF reply.kind = "raise" THEN "model error" ELSE "expected string"

\* An AgentResponse whose iteration_count counts every step.
AgentResponseCountsSteps(session_id, success, message, steps, artifacts) ==
  [session_id |-> session_id, success |-> success, message |-> message,
   steps |-> steps, artifacts |-> artifacts, iteration_count |-> Len(steps)]

\* AgentResponse(...); iteration_count counts the ACTION steps.
AgentResponse(session_id, success, message, steps, artifacts) ==
  [session_id |-> session_id, success |-> success, message |-> message,
   steps |-> steps, artifacts |-> artifacts,
   iteration_count |->
     Cardinality({i \in 1..Len(steps) : steps[i].type = "action"})]

NoResponse == AgentResponse(None, FALSE, <<>>, <<>>, <<>>)

\* How the latest execute ended for its caller: it returned a response or
\* an exception reached the caller.
NothingReturned == [kind |-> "none", response |-> NoResponse]

\* The except branch of execute re-raises instead of recording the error:
\* the turn returns no AgentResponse.
ExecuteFailedReraises(a1, session_id, reply, id1, now) ==
  [agent |-> a1, raised |-> TRUE, response |-> NoResponse, nextId |-> id1]

\* The except branch of execute: an ERROR step is appended and a response
\* with success=False is returned.
ExecuteFailed(a1, session_id, reply, id1, now) ==
  LET error == ExecutionStep(id1, "error", ErrorText(reply), now)
      a2    == [a1 EXCEPT !.execution_steps = Append(@, error)]
  IN  [agent    |-> a2,
       raised   |-> FALSE,
       response |-> AgentResponse(session_id, FALSE,
                      <<"Error during execution: ", ErrorText(reply)>>,
                      a2.execution_steps, a2.artifacts),
       nextId   |-> id1 + 1]

\* A turn that records an OBSERVATION step with the text of the model
\* before its FINAL_ANSWER step.
ExecuteSucceededObserves(a1, session_id, pr, id1, now) ==
  LET id2   == id1 + Len(pr.artifacts) - Len(a1.artifacts)
      seen  == ExecutionStep(id2, "observation", pr.clean, now)
      final == ExecutionStep(id2 + 1, "final_answer", pr.clean, now)
      a2    == [a1 EXCEPT !.artifacts = pr.artifacts,
                          !.execution_steps = Append(Append(@, seen), final)]
  IN  [agent    |-> a2,
       raised   |-> FALSE,
       response |-> AgentResponse(session_id, TRUE, pr.clean,
                      a2.execution_steps, a2.artifacts),
       nextId   |-> id2 + 2]

\* The rest of the try block of execute once _process_response has returned
\* pr on agent record a1: the FINAL_ANSWER step of _run_react_loop and the
\* AgentResponse with success=True.
ExecuteSucceeded(a1, session_id, pr, id1, now) ==
  LET id2   == id1 + Len(pr.artifacts) - Len(a1.artifacts)
      final == ExecutionStep(id2, "final_answer", pr.clean, now)
      a2    == [a1 EXCEPT !.artifacts = pr.artifacts,
                          !.execution_steps = Append(@, final)]
  IN  [agent    |-> a2,
       raised   |-> FALSE,
       response |-> AgentResponse(session_id, TRUE, pr.clean,
                      a2.execution_steps, a2.artifacts),
       nextId   |-> id2 + 1]

\* execute after its reset left agent record a0, with _run_react_loop
\* inlined: the THOUGHT step, the model call, then extraction or the except
\* branch.
ExecuteFrom(a0, user_message, session_id, reply, id0, now) ==
  LET thought == ExecutionStep(id0, "thought",
                               <<"Analyzing request: ", user_message>>, now)
      a1      == [a0 EXCEPT !.execution_steps = Append(@, thought)]
  IN  IF reply.kind = "content"
      THEN ExecuteSucceeded(a1, session_id,
             ProcessResponse(a1.artifacts, reply.content, id0 + 1, now),
             id0 + 1, now)
      ELSE ExecuteFailed(a1, session_id, reply, id0 + 1, now)

\* execute(user_message, session_id) on agent record a: the agent
\* afterwards, the AgentResponse returned, the next free id.
Execute(a, user_message, session_id, reply, id0, now) ==
  ExecuteFrom(Reset(a, session_id), user_message, session_id, reply, id0, now)

\* add_artifact(artifact_type, title, content) on agent record a.
AddArtifactTo(a, type, title, content, id0, now) ==
  [a EXCEPT !.artifacts =
     Append(@, Artifact(id0, type, title, content, None, now))]

\* The AgentResponse `ret` of the latest execute, as its holder reads it
\* when the agent's record is `a`: execute passes self.execution_steps and
\* self.artifacts themselves to AgentResponse, no copies, so until the next
\* turn binds new lists to the agent the response's steps and artifacts are
\* the agent's lists.
ResponseSharingLists(ret, a) ==
  IF ret.kind # "returned" THEN ret
  ELSE [ret EXCEPT !.response.steps = a.execution_steps,
                   !.response.artifacts = a.artifacts]

-----------------------------------------------------------------------------
(* stream_execute: an async generator.  A generator record says where the  *)
(* generator is suspended (pc) and holds its locals.                        *)

\* datetime.isoformat()
IsoFormat(t) == <<"iso", t>>

\* ExecutionStep.to_dict()
StepToDict(step) ==
  [id |-> step.id, type |-> step.type, content |-> step.content,
   tool_name |-> step.tool_name, timestamp |-> IsoFormat(step.timestamp)]

\* Artifact.to_dict()
ArtifactToDict(artifact) ==
  [id |-> artifact.id, type |-> artifact.type, title |-> artifact.title,
   content |-> artifact.content, language |-> artifact.language,
   metadata |-> artifact.metadata,
   created_at |-> IsoFormat(artifact.created_at)]

\* StopAsyncIteration: the generator yields nothing more.
NoEvent == [type |-> "none"]

IdleGen ==
  [pc |-> "idle", user_message |-> None, session_id |-> None,
   response_content |-> <<>>, final_message |-> <<>>, k |-> 0, pulled |-> 0]

\* agent.stream_execute(user_message, session_id): the generator object,
\* before anything of its body has run.
NewGen(user_message, session_id) ==
  [IdleGen EXCEPT !.pc = "created", !.user_message = user_message,
                  !.session_id = session_id]

\* The generator holds values it may still yield.
Suspended(g) ==
  g.pc \in {"start", "thought", "token", "artifact", "final", "complete",
            "error"}

\* What the statement the generator resumes into can do: the model stream
\* hands out one more fragment with content (fragments without content are
\* skipped by _stream_agent_response), the stream ends, or an exception is
\* raised.
Resumes ==
  [kind : {"chunk"}, chunk : ReplyChunks] \cup
  {[kind |-> "end", chunk |-> <<>>], [kind |-> "raise", chunk |-> <<>>]}

\* response_content = chunk in place of +=: the fragments before are lost.
GenTokenOverwrites(g, a, chunk) ==
  [gen   |-> [g EXCEPT !.pc = "token", !.response_content = chunk,
                       !.pulled = @ + 1],
   agent |-> a,
   event |-> [type |-> "token", content |-> chunk]]

\* response_content += chunk; yield the token event.
GenToken(g, a, chunk) ==
  [gen   |-> [g EXCEPT !.pc = "token", !.response_content = @ \o chunk,
                       !.pulled = @ + 1],
   agent |-> a,
   event |-> [type |-> "token", content |-> chunk]]

\* The final step: a FINAL_ANSWER step is appended and yielded.
GenFinal(g, a, final_message, id0, now) ==
  LET final_step == ExecutionStep(id0, "final_answer", final_message, now)
  IN  [gen    |-> [g EXCEPT !.pc = "final"],
       agent  |-> [a EXCEPT !.execution_steps = Append(@, final_step)],
       event  |-> [type |-> "step", step |-> StepToDict(final_step)],
       nextId |-> id0 + 1]

\* The except branch yields the error event and goes on with the statements
\* after the try block's point of failure.
GenErrorGoesOn(g, a, id0) ==
  [gen    |-> [g EXCEPT !.pc = "final"],
   agent  |-> a,
   event  |-> [type |-> "error", message |-> "model error"],
   nextId |-> id0]

\* The except branch of stream_execute: the error event.
GenError(g, a, id0) ==
  [gen    |-> [g EXCEPT !.pc = "error"],
   agent  |-> a,
   event  |-> [type |-> "error", message |-> "model error"],
   nextId |-> id0]

\* The loop over self.artifacts is missing: the final step follows at once.
GenNoArtifactEvents(g, a, next, final_message, id0, now) ==
  GenFinal(g, a, final_message, id0, now)

\* for artifact in self.artifacts: yield ...; then the final step.
GenArtifactOrFinal(g, a, next, final_message, id0, now) ==
  IF next <= Len(a.artifacts)
  THEN [gen    |-> [g EXCEPT !.pc = "artifact", !.k = next],
        agent  |-> a,
        event  |-> [type |-> "artifact",
                    artifact |-> ArtifactToDict(a.artifacts[next])],
        nextId |-> id0]
  ELSE GenFinal(g, a, final_message, id0, now)

\* The token loop has ended and _process_response has returned pr: the
\* artifacts are the agent's, the clean text is final_message, and the first
\* artifact event or the final step follows.
GenExtracted(g, a, pr, id0, now) ==
  GenArtifactOrFinal([g EXCEPT !.final_message = pr.clean],
                     [a EXCEPT !.artifacts = pr.artifacts], 1, pr.clean,
                     id0 + Len(pr.artifacts) - Len(a.artifacts), now)

\* One __anext__ of the generator g of agent record a: the body runs from
\* where it is suspended to its next yield (event) or to its end (NoEvent).  `resume` is what the statement it resumes into does.
GenNext(g, a, resume, id0, now) ==
  CASE g.pc = "created" ->
         [gen    |-> [g EXCEPT !.pc = "start"],
          agent  |-> Reset(a, g.session_id),
          event  |-> [type |-> "start", session_id |-> g.session_id],
          nextId |-> id0]
    [] g.pc = "start" ->
         LET thought_step ==
               ExecutionStep(id0, "thought",
                             <<"Analyzing request: ", g.user_message>>, now)
         IN  [gen    |-> [g EXCEPT !.pc = "thought"],
              agent  |-> [a EXCEPT !.execution_steps =
                                     Append(@, thought_step)],
              event  |-> [type |-> "step", step |-> StepToDict(thought_step)],
              nextId |-> id0 + 1]
    [] g.pc \in {"thought", "token"} ->
         IF resume.kind = "chunk"
         THEN GenToken(g, a, resume.chunk) @@ [nextId |-> id0]
         ELSE IF resume.kind = "raise" THEN GenError(g, a, id0)
         ELSE GenExtracted(g, a, ProcessResponse(a.artifacts,
                                 g.response_content, id0, now), id0, now)
    [] g.pc = "artifact" ->
         IF resume.kind = "raise" THEN GenError(g, a, id0)
         ELSE GenArtifactOrFinal(g, a, g.k + 1, g.final_message, id0, now)
    [] g.pc = "final" ->
         [gen    |-> [g EXCEPT !.pc = "complete"],
          agent  |-> a,
          event  |-> [type |-> "complete", session_id |-> a.current_session_id,
                      success |-> TRUE],
          nextId |-> id0]
    [] g.pc \in {"complete", "error"} ->
         [gen    |-> [g EXCEPT !.pc = "done"],
          agent  |-> a,
          event  |-> NoEvent,
          nextId |-> id0]

\* The resumes that make sense where g is suspended.
ResumesAt(g) ==
  CASE g.pc \in {"thought", "token"} ->
         {r \in Resumes : r.kind = "chunk" => g.pulled < MaxReply}
    [] g.pc = "artifact" -> {r \in Resumes : r.kind # "chunk"}
    [] OTHER -> {[kind |-> "end", chunk |-> <<>>]}

-----------------------------------------------------------------------------
(* api/routes.py: the session registry and the records of POST /api/chat.  *)

\* The bodies POST /api/chat is called with: a content of one character at
\* least, and a session_id or none.
ChatMessages ==
  { [content |-> "m1", session_id |-> "s1"],
    [content |-> "m2", session_id |-> "s2"],
    [content |-> "m1", session_id |-> None] }

\* What the model call of a chat turn does: a reply without a tag, with one
\* tag, with two tags (the second with a title) and text between them, with
\* two tags the first of which has a title, a reply whose content is None,
\* an exception.
ChatReplies ==
  { [kind |-> "content", content |-> <<"x">>],
    [kind |-> "content", content |-> <<"L", "x", "Q", "s", "x", "E">>],
    [kind |-> "content",
     content |-> <<"L", "x", "Q", "x", "E", "x",
                   "L", "x", "T", "x", "Q", "x", "E">>],
    [kind |-> "content",
     content |-> <<"L", "x", "T", "s", "Q", "x", "E",
                   "L", "x", "Q", "P", "E">>],
    [kind |-> "none", content |-> <<>>],
    [kind |-> "raise", content |-> <<>>] }

\* str(uuid.uuid4()), for the n-th uuid drawn.
Uuid(n) == "uuid" \o ToString(n)

\* The dict a session starts as.  It has no "last_activity" key yet: None.
NewSession(session_id, now) ==
  [id |-> session_id, created_at |-> IsoFormat(now), messages |-> <<>>,
   artifacts |-> <<>>, last_activity |-> None]

\* Every chat turn replaces the record of its session id by a new one.
InitSessionAlways(ss, session_id, now) ==
  (session_id :> NewSession(session_id, now)) @@
  [k \in DOMAIN ss \ {session_id} |-> ss[k]]

\* if session_id not in sessions: sessions[session_id] = {...}
InitSession(ss, session_id, now) ==
  IF session_id \in DOMAIN ss THEN ss
  ELSE (session_id :> NewSession(session_id, now)) @@ ss

\* sessions[session_id]["messages"].append({role, content, timestamp})
AppendMessage(session, role, content, now) ==
  [session EXCEPT !.messages =
     Append(@, [role |-> role, content |-> content,
                timestamp |-> IsoFormat(now)])]

\* The registry once the metadata dict of the Artifact with the given id
\* holds `metadata`: to_dict puts self.metadata itself, not a copy, into the
\* dict it returns and chat appends that dict to the session, so the
\* snapshots made of the Artifact read the same dict.  The other values of
\* a snapshot are strings.
SnapshotsSharingMetadata(ss, artifact_id, metadata) ==
  [k \in DOMAIN ss |->
     [ss[k] EXCEPT !.artifacts =
        [i \in 1..Len(@) |->
           IF @[i].id = artifact_id THEN [@[i] EXCEPT !.metadata = metadata]
           ELSE @[i]]]]

\* [a.to_dict() for a in artifacts]
ArtifactDicts(artifacts) ==
  [i \in 1..Len(artifacts) |-> ArtifactToDict(artifacts[i])]

\* The snapshots of the turn take the place of the session's list.
StoreArtifactsReplaces(session, artifacts) ==
  [session EXCEPT !.artifacts = ArtifactDicts(artifacts)]

\* for artifact in response.artifacts:
\*     sessions[session_id]["artifacts"].append(artifact.to_dict())
StoreArtifacts(session, artifacts) ==
  [session EXCEPT !.artifacts = @ \o ArtifactDicts(artifacts)]

\* sessions[session_id] as a turn would leave it had the session been
\* deleted and created anew between the turn's two appends
SessionRecreatedAfterTurn(session, response, now) ==
  [[session EXCEPT !.messages =
      <<[role |-> "assistant", content |-> response.message,
         timestamp |-> IsoFormat(now)]>>]
   EXCEPT !.last_activity = IsoFormat(now)]

\* What the handler of POST /api/chat does to the session once execute has
\* returned `response`: the assistant message, the artifact snapshots,
\* last_activity.
SessionAfterTurn(session, response, now) ==
  [StoreArtifacts(AppendMessage(session, "assistant", response.message, now),
                  response.artifacts)
   EXCEPT !.last_activity = IsoFormat(now)]

\* ChatResponse(session_id=..., message=..., success=..., artifacts=...,
\* steps=...)
ChatResponse(session_id, response) ==
  [session_id |-> session_id,
   message    |-> response.message,
   success    |-> response.success,
   artifacts  |-> ArtifactDicts(response.artifacts),
   steps      |-> [i \in 1..Len(response.steps) |->
                     StepToDict(response.steps[i])]]

\* No POST /api/chat has been answered yet.  A record of `responses` holds
\* the number n of answers so far and, of the latest, the status, the
\* ChatResponse (body), and what the turn was given: the request body
\* (message), the model's reply, the first free id (first_id) and the time.
NoChat ==
  [n |-> 0, status |-> 0, message |-> [content |-> None, session_id |-> None],
   reply |-> [kind |-> "none", content |-> <<>>], first_id |-> 0, at |-> 0,
   body |-> ChatResponse(None, NoResponse)]

\* The session ids a client names in the path of a session endpoint, and
\* the artifact ids (ids are drawn from 0 on).
PathIds == SessionIds \cup {Uuid(0)}

ArtifactIds == 0..3

\* No call yet.  A record of `result` names the operation (op), the id it
\* was called with (id: a session id, or the uuid of an artifact) and what
\* it returned (value).
NoResult == [op |-> "none", id |-> None, value |-> None]

\* the toolkits of src/backend/tools after construction: no dataset, no
\* document
NewToolkits == [dataframes |-> <<>>, documents |-> <<>>]

\* What a session endpoint answers: a status and a body; the body of an
\* HTTPException is {"detail": ...}.
Answer(status, body) == [status |-> status, body |-> body]

NotFound(detail) == Answer(404, [detail |-> detail])

\* An unknown session id is answered 200 and an empty body.
GetSessionLenient(ss, session_id) ==
  IF session_id \notin DOMAIN ss THEN Answer(200, None)
  ELSE Answer(200, ss[session_id])

\* GET /api/sessions/{session_id}
GetSession(ss, session_id) ==
  IF session_id \notin DOMAIN ss THEN NotFound("Session not found")
  ELSE Answer(200, ss[session_id])

\* GET /api/sessions/{session_id}/artifacts
GetSessionArtifacts(ss, session_id) ==
  IF session_id \notin DOMAIN ss THEN NotFound("Session not found")
  ELSE Answer(200, ss[session_id].artifacts)

\* GET /api/sessions/{session_id}/artifacts/{artifact_id}: the first
\* snapshot of the session with that id.
GetArtifact(ss, session_id, artifact_id) ==
  IF session_id \notin DOMAIN ss THEN NotFound("Session not found")
  ELSE LET artifacts == ss[session_id].artifacts
           found == {i \in 1..Len(artifacts) : artifacts[i].id = artifact_id}
       IN  IF found = {} THEN NotFound("Artifact not found")
           ELSE Answer(200, artifacts[CHOOSE i \in found :
                                        \A j \in found : i <= j])

\* The answer of DELETE /api/sessions/{session_id}.
DeleteAnswer(ss, session_id) ==
  IF session_id \notin DOMAIN ss THEN NotFound("Session not found")
  ELSE Answer(200, [status |-> "deleted", session_id |-> session_id])

-----------------------------------------------------------------------------
(* artifacts/artifact_manager.py: ArtifactManager.artifacts is a dict, which *)
(* keeps its keys in the order of their insertion; `store` is the sequence *)
(* of its values in that order.                                            *)

\* None, where the value is otherwise a dict or an object (a record).
Absent == [absent |-> TRUE]

\* bool(x) of a value that is None or a string.
Truthy(x) == x # None /\ x # ""

\* ArtifactData(type=..., title=..., content=..., language=...,
\* session_id=..., metadata=...): id from uuid4, created_at and updated_at
\* from now().
ArtifactData(id, type, title, content, language, session_id, metadata, now) ==
  [id |-> id, type |-> type, title |-> title, content |-> content,
   language |-> language, session_id |-> session_id, metadata |-> metadata,
   created_at |-> now, updated_at |-> now]

\* The arguments create is called with, in turn: an artifact of session s1
\* with a metadata key set, then one with an empty session id and no
\* metadata, then the first again, and so on.
CreateArgs ==
  << [type |-> "code", title |-> "t0", content |-> "c0", language |-> "python",
      session_id |-> "s1", metadata |-> [k |-> "v0"]],
     [type |-> "text", title |-> "t0", content |-> "c0", language |-> None,
      session_id |-> "", metadata |-> Absent] >>

\* The arguments update is called with besides the id: nothing provided;
\* a content and a metadata key not set at creation; an empty content, a
\* title and the metadata key set at creation.
UpdateArgs ==
  { [content |-> None, title |-> None, metadata |-> Absent],
    [content |-> "c1", title |-> None, metadata |-> [j |-> "v1"]],
    [content |-> "", title |-> "t1", metadata |-> [k |-> "v1"]] }

\* The ids the methods are called with: MaxStored is the id of no artifact.
StoreIds == 0..MaxStored

\* The session ids clear_session and list_all are called with.
StoreSessionIds == {"s1", ""}

\* The position in st of the artifact with the given id, 0 if there is none.
IndexOf(st, artifact_id) ==
  IF \E i \in 1..Len(st) : st[i].id = artifact_id
  THEN CHOOSE i \in 1..Len(st) : st[i].id = artifact_id
  ELSE 0

\* create numbers the artifact by the size of the store, not by a uuid.
StoreCreateNumbersBySize(st, args, id, now) ==
  LET artifact ==
        ArtifactData(Len(st), args.type, args.title, args.content,
                     args.language, args.session_id,
                     IF args.metadata = Absent \/ args.metadata = <<>>
                     THEN <<>> ELSE args.metadata,
                     now)
  IN  [store |-> Append(st, artifact), value |-> artifact]

\* create(...): store[artifact.id] = artifact, a new key, so it comes last.
\* `metadata or {}`.
StoreCreate(st, args, id, now) ==
  LET artifact ==
        ArtifactData(id, args.type, args.title, args.content, args.language,
                     args.session_id,
                     IF args.metadata = Absent \/ args.metadata = <<>>
                     THEN <<>> ELSE args.metadata,
                     now)
  IN  [store |-> Append(st, artifact), value |-> artifact]

\* get(artifact_id): self.artifacts.get(artifact_id)
StoreGet(st, artifact_id) ==
  IF IndexOf(st, artifact_id) = 0 THEN Absent
  ELSE st[IndexOf(st, artifact_id)]

\* artifact.metadata.update(metadata) puts the given dict in the place of
\* the stored one.
MetadataReplaced(old, new) == new

\* artifact.metadata.update(metadata): the given keys take the given
\* values, the other keys keep theirs.
MetadataUpdate(old, new) == new @@ old

\* update of an unknown id stores a new artifact under it.
StoreUpdateUpserts(st, artifact_id, args, now) ==
  LET i == IndexOf(st, artifact_id)
      artifact == ArtifactData(artifact_id, "text", args.title, args.content,
                               None, None, <<>>, now)
  IN  IF i = 0 THEN [store |-> Append(st, artifact), value |-> artifact]
      ELSE [store |-> [st EXCEPT ![i].updated_at = now],
            value |-> [st[i] EXCEPT !.updated_at = now]]

\* update(artifact_id, content, title, metadata)
StoreUpdate(st, artifact_id, args, now) ==
  LET i == IndexOf(st, artifact_id)
      a1 == IF args.content # None
            THEN [st[i] EXCEPT !.content = args.content] ELSE st[i]
      a2 == IF args.title # None THEN [a1 EXCEPT !.title = args.title] ELSE a1
      a3 == IF args.metadata # Absent
            THEN [a2 EXCEPT !.metadata = MetadataUpdate(@, args.metadata)]
            ELSE a2
      a4 == [a3 EXCEPT !.updated_at = now]
  IN  IF i = 0 THEN [store |-> st, value |-> Absent]
      ELSE [store |-> [st EXCEPT ![i] = a4], value |-> a4]

\* st without its i-th element.
Without(st, i) == SubSeq(st, 1, i - 1) \o SubSeq(st, i + 1, Len(st))

\* delete(artifact_id)
StoreDelete(st, artifact_id) ==
  LET i == IndexOf(st, artifact_id)
  IN  IF i # 0 THEN [store |-> Without(st, i), value |-> TRUE]
      ELSE [store |-> st, value |-> FALSE]

RECURSIVE SortedNewestFirst(_)
\* sorted(artifacts, key=lambda a: a.created_at, reverse=True): the sort is
\* stable, artifacts created at the same time keep their order.
SortedNewestFirst(artifacts) ==
  IF artifacts = <<>> THEN <<>>
  ELSE LET latest == CHOOSE t \in {artifacts[i].created_at :
                                     i \in 1..Len(artifacts)} :
                       \A i \in 1..Len(artifacts) :
                         artifacts[i].created_at <= t
           IsLatest(a) == a.created_at = latest
           IsEarlier(a) == a.created_at # latest
       IN  SelectSeq(artifacts, IsLatest) \o
           SortedNewestFirst(SelectSeq(artifacts, IsEarlier))

\* list_all(session_id): `if session_id:` filters by a session id that is
\* neither None nor empty.
StoreListAll(st, session_id) ==
  LET InSession(a) == a.session_id = session_id
  IN  SortedNewestFirst(IF Truthy(session_id) THEN SelectSeq(st, InSession)
                        ELSE st)

\* clear_session(session_id)
StoreClearSession(st, session_id) ==
  LET InSession(a) == a.session_id = session_id
      Other(a) == a.session_id # session_id
  IN  [store |-> SelectSeq(st, Other),
       value |-> Len(SelectSeq(st, InSession))]

\* _get_code_extension(language), for the languages of the model.
CodeExtension(language) == IF language = "python" THEN ".py" ELSE ".txt"

\* save_to_file(artifact_id): the path of the file written (the storage
\* directory and a file name made of the id, the title and the extension of
\* the type), or None.
StoreSaveToFile(st, artifact_id) ==
  LET artifact == StoreGet(st, artifact_id)
  IN  IF artifact = Absent THEN Absent
      ELSE [dir |-> "artifacts_dir", id |-> artifact.id,
            title |-> artifact.title,
            ext |-> IF artifact.type = "code"
                    THEN CodeExtension(artifact.language) ELSE ".txt"]

-----------------------------------------------------------------------------
(* api/websocket.py: the ConnectionManager and the frames of a client.     *)

\* The socket connections, each with its websocket_chat task.
Conns == {"c1", "c2"}

\* The text frames a client sends: text that is no JSON, JSON that is no
\* object, a message with content, a message with an empty content (or
\* none), ping, cancel, and an object of another type.
Frames ==
  { [kind |-> "invalid", content |-> ""],
    [kind |-> "scalar", content |-> ""],
    [kind |-> "message", content |-> "m1"],
    [kind |-> "message", content |-> ""],
    [kind |-> "ping", content |-> ""],
    [kind |-> "cancel", content |-> ""],
    [kind |-> "other", content |-> ""] }

\* What the clients of the connections do: the client of c1 connects with
\* session id s1 and sends any frame; the client of c2 connects with either
\* session id and sends any frame but a message with content, so that one
\* task streams turns while the other connects, receives and disconnects
\* around it, under the same session id or another.
Clients ==
  [c \in Conns |->
     IF c = "c1"
     THEN [session_ids |-> {"s1"}, frames |-> Frames]
     ELSE [session_ids |-> SessionIds,
           frames |-> {f \in Frames : f.kind # "message" \/ f.content = ""}]]

\* A connection not made yet.  pc: "new", "recv" (suspended in
\* receive_text), "stream" (suspended in the send_message of the async for
\* loop), "closed" (the task has ended).  open: the client has not closed
\* the socket.  agent: the local variable agent of the task.  frames: the
\* number of frames receive_text has returned.  inbox: the frames the
\* client has sent while a turn was streaming and receive_text has not
\* returned yet.
NewConn ==
  [pc |-> "new", session_id |-> None, agent |-> None, open |-> TRUE,
   frames |-> 0, inbox |-> <<>>]

\* ConnectionManager.__init__
NewManager == [active_connections |-> <<>>, agents |-> <<>>]

\* ConnectionManager.connect(websocket, session_id) of connection c; the
\* agent create_general_agent() returns is named after the connection.
ManagerConnect(m, c, session_id) ==
  [active_connections |-> (session_id :> c) @@ m.active_connections,
   agents             |-> (session_id :> c) @@ m.agents]

\* ConnectionManager.disconnect(session_id)
ManagerDisconnect(m, session_id) ==
  [active_connections |->
     [k \in DOMAIN m.active_connections \ {session_id} |->
        m.active_connections[k]],
   agents |-> [k \in DOMAIN m.agents \ {session_id} |-> m.agents[k]]]

\* ConnectionManager.send_message(session_id, message): nothing is sent when
\* the session id has no connection (to = None); send_json raises when the
\* client of the connection has closed it.
SendMessage(m, cn, session_id) ==
  IF session_id \notin DOMAIN m.active_connections
  THEN [raised |-> FALSE, to |-> None]
  ELSE [raised |-> ~cn[m.active_connections[session_id]].open,
        to     |-> m.active_connections[session_id]]

\* {"type": event["type"], "data": event}
Wrap(event) == [type |-> event.type, data |-> event]

-----------------------------------------------------------------------------
(* Extraction alone: _process_response on every text of up to MaxChunks    *)
(* fragments, on an agent with no artifacts yet.                           *)

InitCommon ==
  /\ clock = 0
  /\ nextId = 0
  /\ agents = [a \in {"shared"} |-> NewAgent]
  /\ sessions = <<>>
  /\ responses = NoChat
  /\ store = <<>>
  /\ gen = [a \in {"shared"} |-> IdleGen]
  /\ events = [a \in {"shared"} |-> <<>>]
  /\ returned = [a \in {"shared"} |-> NothingReturned]
  /\ turn = [a \in {"shared"} |-> NoTurn]
  /\ conn = [c \in Conns |-> NewConn]
  /\ manager = NewManager
  /\ result = NoResult
  /\ toolkits = NewToolkits

InitExtract ==
  /\ raw = <<>>
  /\ extracted = [done |-> FALSE, artifacts |-> <<>>, clean |-> <<>>]
  /\ InitCommon

\* The text grows by one fragment.
Compose(chunk) ==
  /\ ~extracted.done
  /\ Len(raw) < MaxChunks
  /\ raw' = Append(raw, chunk)
  /\ UNCHANGED <<extracted, clock, nextId, agents, sessions, responses, store,
                 gen, events, returned, turn, conn, manager, result,
                 toolkits>>

\* _process_response(Concat(raw)).
Extract ==
  /\ ~extracted.done
  /\ extracted' = [done |-> TRUE] @@ ProcessResponse(<<>>, Concat(raw), 0, clock)
  /\ UNCHANGED <<raw, clock, nextId, agents, sessions, responses, store, gen,
                 events, returned, turn, conn, manager, result, toolkits>>

NextExtract ==
  \/ \E chunk \in Chunks : Compose(chunk)
  \/ Extract

SpecExtract == InitExtract /\ [][NextExtract]_vars

-----------------------------------------------------------------------------
(* One agent object and a caller that runs its operations one at a time:   *)
(* execute, stream_execute (pulled event by event, or abandoned) and       *)
(* add_artifact.                                                           *)

\* await agent.execute(user_message, session_id)
AgentExecute(a, req, reply) ==
  /\ ~Suspended(gen[a])
  /\ turn[a].n < MaxTurns
  /\ \E r \in {Execute(agents[a], req.content, req.session_id, reply, nextId,
                      clock)} :
         /\ agents' = [agents EXCEPT ![a] = r.agent]
         /\ returned' = [returned EXCEPT ![a] =
                           [kind     |-> IF r.raised THEN "raised"
                                         ELSE "returned",
                            response |-> r.response]]
         /\ nextId' = r.nextId
  /\ turn' = [turn EXCEPT ![a] =
                BeginTurn(@, "execute", nextId, reply.kind # "content")]
  /\ gen' = [gen EXCEPT ![a] = IdleGen]
  /\ events' = [events EXCEPT ![a] = <<>>]
  /\ UNCHANGED <<raw, extracted, clock, sessions, responses, store, conn,
                 manager, result, toolkits>>

\* agent.stream_execute(user_message, session_id) and the first __anext__.
StreamBegin(a, req) ==
  /\ ~Suspended(gen[a])
  /\ turn[a].n < MaxTurns
  /\ \E r \in {GenNext(NewGen(req.content, req.session_id), agents[a],
                      [kind |-> "end", chunk |-> <<>>], nextId, clock)} :
         /\ gen' = [gen EXCEPT ![a] = r.gen]
         /\ agents' = [agents EXCEPT ![a] = r.agent]
         /\ events' = [events EXCEPT ![a] = <<r.event>>]
         /\ nextId' = r.nextId
  /\ turn' = [turn EXCEPT ![a] = BeginTurn(@, "stream", nextId, FALSE)]
  /\ returned' = [returned EXCEPT ![a] = NothingReturned]
  /\ UNCHANGED <<raw, extracted, clock, sessions, responses, store, conn,
                 manager, result, toolkits>>

\* One more __anext__ of the generator.
StreamNext(a, resume) ==
  /\ Suspended(gen[a])
  /\ resume \in ResumesAt(gen[a])
  /\ \E r \in {GenNext(gen[a], agents[a], resume, nextId, clock)} :
         /\ gen' = [gen EXCEPT ![a] = r.gen]
         /\ agents' = [agents EXCEPT ![a] = r.agent]
         /\ events' = [events EXCEPT ![a] =
                         IF r.event = NoEvent THEN @ ELSE Append(@, r.event)]
         /\ nextId' = r.nextId
  /\ UNCHANGED <<raw, extracted, clock, sessions, responses, store, returned,
                 turn, conn, manager, result, toolkits>>

\* The consumer drops the generator before it is exhausted.
StreamAbandon(a) ==
  /\ Suspended(gen[a])
  /\ gen' = [gen EXCEPT ![a] = [@ EXCEPT !.pc = "abandoned"]]
  /\ UNCHANGED <<raw, extracted, clock, nextId, agents, sessions, responses,
                 store, events, returned, turn, conn, manager, result,
                 toolkits>>

\* agent.add_artifact(artifact_type, title, content), between two turns (once
\* per turn at most).
AddArtifact(a) ==
  /\ ~Suspended(gen[a])
  /\ ~turn[a].manual
  /\ agents' = [agents EXCEPT ![a] =
                  AddArtifactTo(@, <<"x">>, <<"x">>, <<"x">>, nextId, clock)]
  /\ returned' = [returned EXCEPT ![a] = ResponseSharingLists(@, agents'[a])]
  /\ nextId' = nextId + 1
  /\ turn' = [turn EXCEPT ![a].manual = TRUE]
  /\ UNCHANGED <<raw, extracted, clock, sessions, responses, store, gen,
                 events, conn, manager, result, toolkits>>

InitAgent ==
  /\ raw = <<>>
  /\ extracted = [done |-> FALSE, artifacts |-> <<>>, clean |-> <<>>]
  /\ InitCommon

NextAgent ==
  \/ \E req \in Requests, reply \in Replies :
       AgentExecute("shared", req, reply)
  \/ \E req \in Requests : StreamBegin("shared", req)
  \/ \E resume \in Resumes : StreamNext("shared", resume)
  \/ StreamAbandon("shared")
  \/ AddArtifact("shared")

SpecAgent == InitAgent /\ [][NextAgent]_vars

-----------------------------------------------------------------------------
(* The HTTP interface: POST /api/chat and DELETE /api/sessions/{id} on the *)
(* session registry, all turns on the one shared agent of api/routes.py.   *)
(* The handler of POST /api/chat is one step: between its first statement  *)
(* and its return it awaits agent.execute only, which awaits               *)
(* _run_react_loop only, which calls self.agent.run(user_message) without  *)
(* awaiting anything; so the event loop runs no other task meanwhile.      *)

\* datetime.now() moves on.
Tick ==
  /\ clock < MaxClock
  /\ clock' = clock + 1
  /\ UNCHANGED <<raw, extracted, nextId, agents, sessions, responses, store,
                 gen, events, returned, turn, conn, manager, result,
                 toolkits>>

\* POST /api/chat with body `message`, the model call of the turn doing
\* `reply`.
Chat(message, reply) ==
  /\ responses.n < MaxTurns
  /\ LET session_id == IF message.session_id # None THEN message.session_id
                       ELSE Uuid(nextId)
         id0        == IF message.session_id # None THEN nextId
                       ELSE nextId + 1
         s0         == InitSession(sessions, session_id, clock)
         s1         == [s0 EXCEPT ![session_id] =
                          AppendMessage(@, "user", message.content, clock)]
         given      == [n |-> responses.n + 1, message |-> message,
                        reply |-> reply, first_id |-> id0, at |-> clock]
     IN  \E r \in {Execute(agents["shared"], message.content, session_id,
                           reply, id0, clock)} :
           /\ agents' = [agents EXCEPT !["shared"] = r.agent]
           /\ nextId' = r.nextId
           /\ IF r.raised
              THEN /\ sessions' = s1
                   /\ responses' = given @@
                        [status |-> 500,
                         body   |-> ChatResponse(None, NoResponse)]
              ELSE /\ sessions' = [s1 EXCEPT ![session_id] =
                        SessionAfterTurn(@, r.response, clock)]
                   /\ responses' = given @@
                        [status |-> 200,
                         body   |-> ChatResponse(session_id, r.response)]
  /\ result' = NoResult
  /\ UNCHANGED <<raw, extracted, clock, store, gen, events, returned, turn,
                 conn, manager, toolkits>>

\* DELETE /api/sessions/{session_id}
DeleteSession(session_id) ==
  /\ sessions' = [k \in DOMAIN sessions \ {session_id} |-> sessions[k]]
  /\ result' = [op |-> "delete_session", id |-> session_id,
                value |-> DeleteAnswer(sessions, session_id)]
  /\ UNCHANGED <<raw, extracted, clock, nextId, agents, responses, store, gen,
                 events, returned, turn, conn, manager, toolkits>>

\* The GET endpoints of a session: the session, its artifact snapshots, one
\* of them.
ReadSession(session_id) ==
  /\ \/ result' = [op |-> "get_session", id |-> session_id,
                   value |-> GetSession(sessions, session_id)]
     \/ result' = [op |-> "get_session_artifacts", id |-> session_id,
                   value |-> GetSessionArtifacts(sessions, session_id)]
     \/ \E artifact_id \in ArtifactIds :
          result' = [op |-> "get_artifact", id |-> session_id,
                     value |-> GetArtifact(sessions, session_id, artifact_id)]
  /\ UNCHANGED <<raw, extracted, clock, nextId, agents, sessions, responses,
                 store, gen, events, returned, turn, conn, manager, toolkits>>

Init ==
  /\ raw = <<>>
  /\ extracted = [done |-> FALSE, artifacts |-> <<>>, clean |-> <<>>]
  /\ InitCommon

Next ==
  \/ \E message \in ChatMessages, reply \in ChatReplies : Chat(message, reply)
  \/ \E session_id \in PathIds : DeleteSession(session_id)
  \/ Tick

Spec == Init /\ [][Next]_vars

\* The event loop runs every handler that is ready.
FairSpec == Spec /\ WF_vars(Next)

\* The session endpoints of routes.py called in any order, at one instant of
\* the clock.
NextSessions ==
  \/ \E message \in ChatMessages, reply \in ChatReplies : Chat(message, reply)
  \/ \E session_id \in PathIds : DeleteSession(session_id)
  \/ \E session_id \in PathIds : ReadSession(session_id)

SpecSessions == Init /\ [][NextSessions]_vars

-----------------------------------------------------------------------------
(* The artifact store: the methods of the global artifact_manager, called  *)
(* one at a time.                                                          *)

\* artifact_manager.create(...)
Create(args) ==
  /\ nextId < MaxStored
  /\ \E r \in {StoreCreate(store, args, nextId, clock)} :
       /\ store' = r.store
       /\ result' = [op |-> "create", id |-> Uuid(nextId), value |-> r.value]
  /\ nextId' = nextId + 1
  /\ UNCHANGED <<raw, extracted, clock, agents, sessions, responses, gen,
                 events, returned, turn, conn, manager, toolkits>>

\* artifact_manager.get(artifact_id)
Get(artifact_id) ==
  /\ result' = [op |-> "get", id |-> Uuid(artifact_id),
                value |-> StoreGet(store, artifact_id)]
  /\ UNCHANGED <<raw, extracted, clock, nextId, agents, sessions, responses,
                 store, gen, events, returned, turn, conn, manager, toolkits>>

\* artifact_manager.update(artifact_id, content, title, metadata)
Update(artifact_id, args) ==
  /\ \E r \in {StoreUpdate(store, artifact_id, args, clock)} :
       /\ store' = r.store
       /\ result' = [op |-> "update", id |-> Uuid(artifact_id),
                     value |-> r.value]
  /\ UNCHANGED <<raw, extracted, clock, nextId, agents, sessions, responses,
                 gen, events, returned, turn, conn, manager, toolkits>>

\* artifact_manager.delete(artifact_id)
Delete(artifact_id) ==
  /\ \E r \in {StoreDelete(store, artifact_id)} :
       /\ store' = r.store
       /\ result' = [op |-> "delete", id |-> Uuid(artifact_id),
                     value |-> r.value]
  /\ UNCHANGED <<raw, extracted, clock, nextId, agents, sessions, responses,
                 gen, events, returned, turn, conn, manager, toolkits>>

\* artifact_manager.list_all(session_id)
ListAll(session_id) ==
  /\ result' = [op |-> "list_all", id |-> session_id,
                value |-> StoreListAll(store, session_id)]
  /\ UNCHANGED <<raw, extracted, clock, nextId, agents, sessions, responses,
                 store, gen, events, returned, turn, conn, manager, toolkits>>

\* artifact_manager.clear_session(session_id)
ClearSession(session_id) ==
  /\ \E r \in {StoreClearSession(store, session_id)} :
       /\ store' = r.store
       /\ result' = [op |-> "clear_session", id |-> session_id,
                     value |-> r.value]
  /\ UNCHANGED <<raw, extracted, clock, nextId, agents, sessions, responses,
                 gen, events, returned, turn, conn, manager, toolkits>>

\* artifact_manager.save_to_file(artifact_id)
SaveToFile(artifact_id) ==
  /\ result' = [op |-> "save_to_file", id |-> Uuid(artifact_id),
                value |-> StoreSaveToFile(store, artifact_id)]
  /\ UNCHANGED <<raw, extracted, clock, nextId, agents, sessions, responses,
                 store, gen, events, returned, turn, conn, manager, toolkits>>

NextStore ==
  \/ Create(CreateArgs[(nextId % Len(CreateArgs)) + 1])
  \/ \E artifact_id \in StoreIds : Get(artifact_id)
  \/ \E artifact_id \in StoreIds, args \in UpdateArgs :
       Update(artifact_id, args)
  \/ \E artifact_id \in StoreIds : Delete(artifact_id)
  \/ \E session_id \in StoreSessionIds \cup {None} : ListAll(session_id)
  \/ \E session_id \in StoreSessionIds : ClearSession(session_id)
  \/ \E artifact_id \in StoreIds : SaveToFile(artifact_id)
  \/ Tick

SpecStore == Init /\ [][NextStore]_vars

-----------------------------------------------------------------------------
(* Chat turns, calls of the artifact store, and a holder of the shared     *)
(* agent that writes to the Artifact objects of its latest turn.           *)

\* agent.artifacts[i].title = "t1": the attribute is bound to another
\* string.
SetArtifactTitle(i) ==
  /\ i \in 1..Len(agents["shared"].artifacts)
  /\ agents' = [agents EXCEPT !["shared"].artifacts[i].title = <<"t1">>]
  /\ UNCHANGED <<raw, extracted, clock, nextId, sessions, responses, store,
                 gen, events, returned, turn, conn, manager, result,
                 toolkits>>

\* agent.artifacts[i].metadata["k"] = "v1": the dict is changed in place.
SetArtifactMetadata(i) ==
  /\ i \in 1..Len(agents["shared"].artifacts)
  /\ LET artifact == agents["shared"].artifacts[i]
         metadata == MetadataUpdate(artifact.metadata, [k |-> "v1"])
     IN  /\ agents' = [agents EXCEPT
                         !["shared"].artifacts[i].metadata = metadata]
         /\ sessions' = SnapshotsSharingMetadata(sessions, artifact.id,
                                                 metadata)
  /\ UNCHANGED <<raw, extracted, clock, nextId, responses, store, gen, events,
                 returned, turn, conn, manager, result, toolkits>>

NextSnapshots ==
  \/ \E message \in ChatMessages, reply \in ChatReplies : Chat(message, reply)
  \/ \E i \in 1..MaxReply : SetArtifactTitle(i)
  \/ \E i \in 1..MaxReply : SetArtifactMetadata(i)
  \/ Create(CreateArgs[(nextId % Len(CreateArgs)) + 1])
  \/ \E artifact_id \in StoreIds :
       Update(artifact_id, [content |-> "c1", title |-> "t1",
                            metadata |-> [k |-> "v1"]])
  \/ \E artifact_id \in StoreIds : Delete(artifact_id)

SpecSnapshots == Init /\ [][NextSnapshots]_vars

-----------------------------------------------------------------------------
(* The streaming socket: websocket_chat tasks, one per connection, each    *)
(* taking steps from one suspension (receive_text, send_json) to the next. *)

\* The task of connection c, having read a frame, sends `message` and goes
\* on to pc; if the send raises, the task ends.  A send that raises inside the async for loop is
\* caught there, the send of the error message raises again and the task
\* ends as well.
TaskSends(c, message, pc, frames) ==
  LET out == SendMessage(manager, conn, conn[c].session_id)
  IN  IF out.raised
      THEN /\ manager' = ManagerDisconnect(manager, conn[c].session_id)
           /\ conn' = [conn EXCEPT ![c].pc = "closed", ![c].frames = frames,
                                   ![c].inbox = SubSeq(@, 2, Len(@))]
           /\ events' = [events EXCEPT ![c] = <<>>]
      ELSE /\ manager' = manager
           /\ conn' = [conn EXCEPT ![c].pc = pc, ![c].frames = frames,
                                   ![c].inbox = SubSeq(@, 2, Len(@))]
           /\ events' = [events EXCEPT ![c] =
                           <<[to |-> out.to, msg |-> message]>>]

\* A client connects with a session id in the path: manager.connect, then
\* the connected message.
WsConnect(c, session_id) ==
  /\ conn[c].pc = "new"
  /\ manager' = ManagerConnect(manager, c, session_id)
  /\ agents' = (c :> NewAgent) @@ agents
  /\ conn' = [conn EXCEPT ![c].pc = "recv", ![c].session_id = session_id]
  /\ events' = [events EXCEPT ![c] =
                  <<[to |-> c,
                     msg |-> [type |-> "connected", session_id |-> session_id,
                              agent_name |-> "Atlas"]]>>]
  /\ UNCHANGED <<raw, extracted, clock, nextId, sessions, responses, store,
                 gen, returned, turn, result, toolkits>>

\* The client of connection c sends a frame while the task streams a turn:
\* the frame waits until receive_text is called again.
ClientSend(c, frame) ==
  /\ conn[c].pc = "stream"
  /\ conn[c].open
  /\ conn[c].frames + Len(conn[c].inbox) < MaxFrames + MaxQueued
  /\ conn' = [conn EXCEPT ![c].inbox = Append(@, frame)]
  /\ UNCHANGED <<raw, extracted, clock, nextId, agents, sessions, responses,
                 store, gen, events, returned, turn, manager, result,
                 toolkits>>

\* receive_text returns a frame that starts no turn, the oldest frame that
\* waits or else one the client sends now, and the task handles it up to its
\* next suspension.
WsReceive(c, frame) ==
  /\ conn[c].pc = "recv"
  /\ \/ conn[c].inbox = <<>> /\ conn[c].open /\ conn[c].frames < MaxFrames
     \/ conn[c].inbox # <<>> /\ frame = Head(conn[c].inbox)
  /\ ~(frame.kind = "message" /\ frame.content # "")
  /\ CASE frame.kind = "invalid" ->
            TaskSends(c, [type |-> "error", message |-> "Invalid JSON format"],
                      "recv", conn[c].frames + 1)
       [] frame.kind = "message" ->
            TaskSends(c, [type |-> "error", message |-> "Empty message"],
                      "recv", conn[c].frames + 1)
       [] frame.kind = "ping" ->
            TaskSends(c, [type |-> "pong", timestamp |-> None],
                      "recv", conn[c].frames + 1)
       [] frame.kind = "cancel" ->
            TaskSends(c, [type |-> "cancelled",
                          message |-> "Operation cancelled"],
                      "recv", conn[c].frames + 1)
       [] frame.kind = "scalar" ->
            /\ manager' = ManagerDisconnect(manager, conn[c].session_id)
            /\ conn' = [conn EXCEPT ![c].pc = "closed",
                                    ![c].frames = @ + 1,
                                    ![c].inbox = SubSeq(@, 2, Len(@))]
            /\ events' = [events EXCEPT ![c] = <<>>]
       [] OTHER ->
            /\ manager' = manager
            /\ conn' = [conn EXCEPT ![c].frames = @ + 1,
                                    ![c].inbox = SubSeq(@, 2, Len(@))]
            /\ events' = [events EXCEPT ![c] = <<>>]
  /\ gen' = [gen EXCEPT ![c] = IdleGen]
  /\ UNCHANGED <<raw, extracted, clock, nextId, agents, sessions, responses,
                 store, returned, turn, result, toolkits>>

\* receive_text returns a message with content, the oldest frame that
\* waits or else one the client sends now: the agent of the session id is
\* looked up, stream_execute is called and its first event is sent.
WsMessage(c, frame) ==
  /\ conn[c].pc = "recv"
  /\ \/ conn[c].inbox = <<>> /\ conn[c].open /\ conn[c].frames < MaxFrames
     \/ conn[c].inbox # <<>> /\ frame = Head(conn[c].inbox)
  /\ frame.kind = "message"
  /\ frame.content # ""
  /\ turn' = [turn EXCEPT ![c] = BeginTurn(@, "stream", nextId, FALSE)]
  /\ IF conn[c].session_id \notin DOMAIN manager.agents
     THEN /\ manager' = ManagerDisconnect(manager, conn[c].session_id)
          /\ conn' = [conn EXCEPT ![c].pc = "closed", ![c].frames = @ + 1,
                                  ![c].inbox = SubSeq(@, 2, Len(@))]
          /\ events' = [events EXCEPT ![c] = <<>>]
          /\ gen' = [gen EXCEPT ![c] = IdleGen]
          /\ UNCHANGED <<agents, nextId>>
     ELSE LET agent == manager.agents[conn[c].session_id]
              out   == SendMessage(manager, conn, conn[c].session_id)
          IN  \E r \in {GenNext(NewGen(frame.content, conn[c].session_id),
                                agents[agent],
                                [kind |-> "end", chunk |-> <<>>], nextId,
                                clock)} :
              /\ agents' = [agents EXCEPT ![agent] = r.agent]
              /\ nextId' = r.nextId
              /\ events' = [events EXCEPT ![c] =
                              IF out.raised THEN <<>>
                              ELSE <<[to |-> out.to, msg |-> Wrap(r.event)]>>]
              /\ gen' = [gen EXCEPT ![c] =
                           IF out.raised THEN [r.gen EXCEPT !.pc = "abandoned"]
                           ELSE r.gen]
              /\ manager' = IF out.raised
                            THEN ManagerDisconnect(manager, conn[c].session_id)
                            ELSE manager
              /\ conn' = [conn EXCEPT
                            ![c].pc = IF out.raised THEN "closed" ELSE "stream",
                            ![c].agent = agent,
                            ![c].frames = @ + 1,
                            ![c].inbox = SubSeq(@, 2, Len(@))]
  /\ UNCHANGED <<raw, extracted, clock, sessions, responses, store, returned,
                 result, toolkits>>

\* An async for loop that looks at the frames that wait before it pulls the
\* next event, and drops the generator when a cancel frame is among them
WsStreamCancelled(c, resume) ==
  /\ conn[c].pc = "stream"
  /\ resume \in ResumesAt(gen[c])
  /\ LET out == SendMessage(manager, conn, conn[c].session_id)
         cancelled == \E i \in 1..Len(conn[c].inbox) :
                        conn[c].inbox[i].kind = "cancel"
     IN  \E r \in {GenNext(gen[c], agents[conn[c].agent], resume, nextId,
                           clock)} :
         IF cancelled
         THEN /\ gen' = [gen EXCEPT ![c] = [@ EXCEPT !.pc = "abandoned"]]
              /\ conn' = [conn EXCEPT ![c].pc = "recv"]
              /\ UNCHANGED <<agents, nextId, events, manager>>
         ELSE /\ agents' = [agents EXCEPT ![conn[c].agent] = r.agent]
              /\ nextId' = r.nextId
              /\ IF r.event = NoEvent
                 THEN /\ gen' = [gen EXCEPT ![c] = r.gen]
                      /\ conn' = [conn EXCEPT ![c].pc = "recv"]
                      /\ UNCHANGED <<events, manager>>
                 ELSE IF out.raised
                 THEN /\ gen' = [gen EXCEPT
                                   ![c] = [r.gen EXCEPT !.pc = "abandoned"]]
                      /\ conn' = [conn EXCEPT ![c].pc = "closed"]
                      /\ manager' =
                           ManagerDisconnect(manager, conn[c].session_id)
                      /\ UNCHANGED events
                 ELSE /\ gen' = [gen EXCEPT ![c] = r.gen]
                      /\ events' = [events EXCEPT ![c] =
                                      Append(@, [to |-> out.to,
                                                 msg |-> Wrap(r.event)])]
                      /\ UNCHANGED <<conn, manager>>
  /\ UNCHANGED <<raw, extracted, clock, sessions, responses, store, returned,
                 turn, result, toolkits>>

\* The async for loop of the task of connection c pulls the next event of
\* its generator and sends it; when the generator is exhausted the task
\* suspends in receive_text again.
WsStream(c, resume) ==
  /\ conn[c].pc = "stream"
  /\ resume \in ResumesAt(gen[c])
  /\ LET out == SendMessage(manager, conn, conn[c].session_id)
     IN  \E r \in {GenNext(gen[c], agents[conn[c].agent], resume, nextId,
                           clock)} :
         /\ agents' = [agents EXCEPT ![conn[c].agent] = r.agent]
         /\ nextId' = r.nextId
         /\ IF r.event = NoEvent
            THEN /\ gen' = [gen EXCEPT ![c] = r.gen]
                 /\ conn' = [conn EXCEPT ![c].pc = "recv"]
                 /\ UNCHANGED <<events, manager>>
            ELSE IF out.raised
            THEN /\ gen' = [gen EXCEPT ![c] = [r.gen EXCEPT !.pc = "abandoned"]]
                 /\ conn' = [conn EXCEPT ![c].pc = "closed"]
                 /\ manager' = ManagerDisconnect(manager, conn[c].session_id)
                 /\ UNCHANGED events
            ELSE /\ gen' = [gen EXCEPT ![c] = r.gen]
                 /\ events' = [events EXCEPT ![c] =
                                 Append(@, [to |-> out.to,
                                            msg |-> Wrap(r.event)])]
                 /\ UNCHANGED <<conn, manager>>
  /\ UNCHANGED <<raw, extracted, clock, sessions, responses, store, returned,
                 turn, result, toolkits>>

\* The client of connection c closes its socket.
ClientClose(c) ==
  /\ conn[c].pc \in {"recv", "stream"}
  /\ conn[c].open
  /\ conn' = [conn EXCEPT ![c].open = FALSE]
  /\ UNCHANGED <<raw, extracted, clock, nextId, agents, sessions, responses,
                 store, gen, events, returned, turn, manager, result,
                 toolkits>>

\* receive_text raises WebSocketDisconnect, once the frames that wait are
\* read: manager.disconnect(session_id).
WsDisconnected(c) ==
  /\ conn[c].pc = "recv"
  /\ ~conn[c].open
  /\ conn[c].inbox = <<>>
  /\ manager' = ManagerDisconnect(manager, conn[c].session_id)
  /\ conn' = [conn EXCEPT ![c].pc = "closed"]
  /\ UNCHANGED <<raw, extracted, clock, nextId, agents, sessions, responses,
                 store, gen, events, returned, turn, result, toolkits>>

InitSocket ==
  /\ raw = <<>>
  /\ extracted = [done |-> FALSE, artifacts |-> <<>>, clean |-> <<>>]
  /\ clock = 0
  /\ nextId = 0
  /\ agents = [a \in {"shared"} |-> NewAgent]
  /\ sessions = <<>>
  /\ responses = NoChat
  /\ store = <<>>
  /\ gen = [c \in Conns |-> IdleGen]
  /\ events = [c \in Conns |-> <<>>]
  /\ returned = [a \in {"shared"} |-> NothingReturned]
  /\ turn = [c \in Conns |-> NoTurn]
  /\ conn = [c \in Conns |-> NewConn]
  /\ manager = NewManager
  /\ result = NoResult
  /\ toolkits = NewToolkits

NextSocket ==
  \/ \E c \in Conns : \E session_id \in Clients[c].session_ids :
       WsConnect(c, session_id)
  \/ \E c \in Conns : \E frame \in Clients[c].frames : WsReceive(c, frame)
  \/ \E c \in Conns : \E frame \in Clients[c].frames : WsMessage(c, frame)
  \/ \E c \in Conns, resume \in Resumes : WsStream(c, resume)
  \/ \E c \in Conns : ClientClose(c)
  \/ \E c \in Conns : WsDisconnected(c)

SpecSocket == InitSocket /\ [][NextSocket]_vars

\* One connection whose client also sends frames while a turn is streaming.
NextFrames ==
  \/ WsConnect("c1", "s1")
  \/ \E frame \in Frames : ClientSend("c1", frame)
  \/ \E frame \in Frames : WsReceive("c1", frame)
  \/ \E frame \in Frames : WsMessage("c1", frame)
  \/ \E resume \in Resumes : WsStream("c1", resume)
  \/ ClientClose("c1")
  \/ WsDisconnected("c1")

SpecFrames == InitSocket /\ [][NextFrames]_vars

-----------------------------------------------------------------------------
(* Properties of extraction (SpecExtract) *)

RECURSIVE ReplaceSpans(_, _, _)
\* t from position `from` on, with each of the given spans replaced by the
\* placeholder and everything outside them copied.
ReplaceSpans(t, spans, from) ==
  IF spans = <<>> THEN SubSeq(t, from, Len(t))
  ELSE SubSeq(t, from, Head(spans).start - 1) \o <<"P">> \o
       ReplaceSpans(t, Tail(spans), Head(spans).end + 1)

\* The match m of a text has a placeholder in an attribute value of its
\* opening tag.
PlaceholderInOpeningTag(m) ==
  \E i \in 1..Len(m.type \o m.language \o m.title) :
    (m.type \o m.language \o m.title)[i] = "P"

\* The parts of C6 that hold of every text: as many artifacts as matches
\* (each match is one placeholder in the clean text), and the clean text is
\* the input with every matched span replaced by the placeholder.
C6_CountAndReplacement ==
  LET text    == Concat(raw)
      matches == FindAll(text)
  IN  /\ Len(extracted.artifacts) = Len(matches)
      /\ Count(extracted.clean, "P") = Len(matches) + Count(text, "P")
      /\ extracted.clean = ReplaceSpans(text, matches, 1)

-----------------------------------------------------------------------------
(* Properties of one agent (SpecAgent) *)

\* The events of type ty among ev, in order.
OfType(ev, ty) == SelectSeq(ev, LAMBDA e : e.type = ty)

\* Where an event stands in a turn: 0 start, 1 the THOUGHT step, 2 a token,
\* 3 an artifact, 4 the FINAL_ANSWER step, 5 complete, 6 error.
Rank(e) ==
  CASE e.type = "start" -> 0
    [] e.type = "step" -> IF e.step.type = "thought" THEN 1
                          ELSE IF e.step.type = "final_answer" THEN 4 ELSE 7
    [] e.type = "token" -> 2
    [] e.type = "artifact" -> 3
    [] e.type = "complete" -> 5
    [] e.type = "error" -> 6
    [] OTHER -> 7

\* The ranks that may follow rank r in a turn that does not fail.
MayFollow(r) ==
  CASE r = 0 -> {1}
    [] r = 1 -> {2, 3, 4}
    [] r = 2 -> {2, 3, 4}
    [] r = 3 -> {3, 4}
    [] r = 4 -> {5}
    [] OTHER -> {}

\* The token contents of ev, concatenated in emission order.
TokenText(ev) ==
  Concat([i \in 1..Len(OfType(ev, "token")) |-> OfType(ev, "token")[i].content])

\* Two artifact dicts agree in all but the time of creation.
SameArtifact(d, e) ==
  /\ d.id = e.id
  /\ d.type = e.type
  /\ d.title = e.title
  /\ d.content = e.content
  /\ d.language = e.language
  /\ d.metadata = e.metadata

\* C1: the events of a streamed turn that has not failed are, in order, one
\* start, one step with the THOUGHT step, tokens, artifacts, one step with
\* the FINAL_ANSWER step, one complete; once the FINAL_ANSWER step is out
\* there is one artifact event per artifact extracted from the reassembled
\* text, in order; so tokens precede artifacts and artifacts precede
\* complete.
C1_StreamEventOrder ==
  \A a \in DOMAIN events :
    LET ev == events[a]
    IN  (ev # <<>> /\ OfType(ev, "error") = <<>>) =>
          /\ Rank(ev[1]) = 0
          /\ \A i \in 1..(Len(ev) - 1) : Rank(ev[i + 1]) \in MayFollow(Rank(ev[i]))
          /\ gen[a].pc = "done" => Rank(ev[Len(ev)]) = 5
          /\ Rank(ev[Len(ev)]) \in {4, 5} =>
               LET found == ExtractArtifacts(<<>>, FindAll(TokenText(ev)),
                                             turn[a].first_id + 1, clock)
                   arts  == OfType(ev, "artifact")
               IN  /\ Len(arts) = Len(found)
                   /\ \A i \in 1..Len(arts) :
                        SameArtifact(arts[i].artifact, ArtifactToDict(found[i]))
          /\ \A i, j \in 1..Len(ev) :
               /\ (ev[i].type = "token" /\ ev[j].type = "artifact") => i < j
               /\ (ev[i].type = "artifact" /\ ev[j].type = "complete") => i < j

\* A streamed turn ran to its complete event with two tokens and an artifact.
C1_Witness ==
  \E a \in DOMAIN events :
    /\ gen[a].pc = "done"
    /\ OfType(events[a], "complete") # <<>>
    /\ Len(OfType(events[a], "token")) >= 2
    /\ OfType(events[a], "artifact") # <<>>

\* C3: execute never raises to its caller; when the model call or the
\* extraction raises, the turn's last step is an ERROR step with the error
\* text and the response returned has success=false and a message that
\* carries the error text.
C3_ExecuteNeverRaises ==
  \A a \in DOMAIN returned :
    /\ returned[a].kind # "raised"
    /\ (turn[a].kind = "execute" /\ turn[a].failed) =>
         LET r == returned[a].response
         IN  /\ returned[a].kind = "returned"
             /\ ~r.success
             /\ r.steps # <<>>
             /\ r.steps[Len(r.steps)].type = "error"
             /\ r.message =
                  <<"Error during execution: ", r.steps[Len(r.steps)].content>>
             /\ r.steps[Len(r.steps)].content \in
                  {"model error", "expected string"}
             /\ \A i \in 1..(Len(r.steps) - 1) : r.steps[i].type # "error"
    /\ (turn[a].kind = "execute" /\ ~turn[a].failed) =>
         /\ returned[a].kind = "returned"
         /\ returned[a].response.success

\* An execute whose model call or extraction raised has returned.
C3_Witness ==
  \E a \in DOMAIN returned :
    /\ turn[a].kind = "execute"
    /\ turn[a].failed
    /\ returned[a].kind = "returned"
    /\ Len(returned[a].response.steps) = 2

\* The ids of the steps and artifacts in a sequence of records.
Ids(records) == {records[i].id : i \in 1..Len(records)}

\* C5: in a sequence of turns on one agent that do not overlap, each turn
\* starts with empty buffers, and the steps and artifacts the agent holds,
\* returns or streams for a turn were all recorded during that turn: none
\* is a step or artifact of an earlier turn.
C5_TurnsStartEmpty ==
  \A a \in DOMAIN agents :
    LET fresh(ids) == \A id \in ids : id >= turn[a].first_id
        ev == events[a]
    IN  /\ fresh(Ids(agents[a].execution_steps))
        /\ fresh(Ids(agents[a].artifacts))
        /\ fresh(Ids(returned[a].response.steps))
        /\ fresh(Ids(returned[a].response.artifacts))
        /\ fresh({OfType(ev, "step")[i].step.id :
                    i \in 1..Len(OfType(ev, "step"))})
        /\ fresh({OfType(ev, "artifact")[i].artifact.id :
                    i \in 1..Len(OfType(ev, "artifact"))})
        /\ gen[a].pc = "start" =>
             agents[a].execution_steps = <<>> /\ agents[a].artifacts = <<>>
        /\ (turn[a].kind = "execute" /\ ~turn[a].manual) =>
             /\ agents[a].execution_steps # <<>>
             /\ agents[a].execution_steps[1].id = turn[a].first_id
             /\ agents[a].execution_steps[1].type = "thought"

\* A later turn returned artifacts after an earlier turn that had recorded
\* an artifact of its own.
C5_Witness ==
  \E a \in DOMAIN agents :
    /\ turn[a].n >= 2
    /\ turn[a].first_id >= 3
    /\ returned[a].kind = "returned"
    /\ returned[a].response.artifacts # <<>>

\* C7: once extraction has run in a streamed turn, the concatenation of the
\* contents of the token events, in emission order, is the text extraction
\* was run over: the final message is that text with its tags replaced and
\* the agent holds one artifact per tag match of that text.
C7_TokensConcatenateToResponse ==
  \A a \in DOMAIN gen :
    (gen[a].pc \in {"artifact", "final", "complete"}) =>
      LET text == TokenText(events[a])
      IN  /\ text = gen[a].response_content
          /\ gen[a].final_message = Sub(text)
          /\ Len(agents[a].artifacts) = Len(FindAll(text))

\* Extraction has run over a reply that came in two tokens and holds a tag.
C7_Witness ==
  \E a \in DOMAIN gen :
    /\ gen[a].pc = "final"
    /\ Len(OfType(events[a], "token")) = 2
    /\ agents[a].artifacts # <<>>

-----------------------------------------------------------------------------
(* Properties of the HTTP interface (Spec, FairSpec) *)

\* The ChatResponse of the turn an answer of POST /api/chat records, had the
\* turn run alone on a new agent: its own steps and artifacts and no other.
OwnTurn(chat) ==
  ChatResponse(chat.body.session_id,
               Execute(NewAgent, chat.message.content, chat.body.session_id,
                       chat.reply, chat.first_id, chat.at).response)

C8_ChatTurnUpdatesItsSession ==
  [][(responses'.n = responses.n + 1 /\ responses'.status = 200) =>
       LET S      == responses'.body.session_id
           before == IF S \in DOMAIN sessions THEN sessions[S]
                     ELSE NewSession(S, clock)
           k      == Len(before.messages)
       IN  /\ DOMAIN sessions' = DOMAIN sessions \cup {S}
           /\ \A T \in DOMAIN sessions \ {S} : sessions'[T] = sessions[T]
           /\ sessions'[S].id = S
           /\ sessions'[S].created_at = before.created_at
           /\ Len(sessions'[S].messages) = k + 2
           /\ SubSeq(sessions'[S].messages, 1, k) = before.messages
           /\ sessions'[S].messages[k + 1].role = "user"
           /\ sessions'[S].messages[k + 1].content = responses'.message.content
           /\ sessions'[S].messages[k + 2].role = "assistant"
           /\ sessions'[S].messages[k + 2].content = responses'.body.message
           /\ sessions'[S].artifacts =
                before.artifacts \o responses'.body.artifacts
           /\ Len(responses'.body.artifacts) =
                IF responses'.reply.kind = "content"
                THEN Len(FindAll(responses'.reply.content)) ELSE 0
           /\ sessions'[S].last_activity = IsoFormat(clock)
     ]_vars

\* A second turn on a session was answered: the session holds four messages
\* and, before the snapshots of this turn, the snapshots of the first.
C8_Witness ==
  /\ responses.n = 2
  /\ responses.status = 200
  /\ responses.body.artifacts # <<>>
  /\ responses.body.session_id \in DOMAIN sessions
  /\ Len(sessions[responses.body.session_id].messages) = 4
  /\ Len(sessions[responses.body.session_id].artifacts) >
       Len(responses.body.artifacts)

\* C9 as stated: after a POST /api/chat turn that produced artifacts, the
\* artifact store holds a record for each of them.
C9_Original ==
  responses.status = 200 =>
    \A i \in 1..Len(responses.body.artifacts) :
      \E id \in DOMAIN store :
        /\ store[id].type = responses.body.artifacts[i].type
        /\ store[id].title = responses.body.artifacts[i].title
        /\ store[id].content = responses.body.artifacts[i].content

-----------------------------------------------------------------------------
(* Properties of the streaming socket (SpecSocket) *)

\* The messages the task of connection c has sent since its latest frame.
Sent(c) == [i \in 1..Len(events[c]) |-> events[c][i].msg]

\* C2: in a streamed turn, a failure after the THOUGHT step yields one error
\* event and nothing after it: an error event and a complete event are each
\* the last event of their turn, so no turn has both and none has two of
\* either; a turn whose generator is exhausted ends with one of them; and
\* the error event follows the start event and the THOUGHT step.
C2_ErrorEndsStream ==
  \A c \in Conns :
    gen[c].pc # "idle" =>
      LET ev == Sent(c)
      IN  /\ \A i \in 1..Len(ev) :
               ev[i].type \in {"error", "complete"} => i = Len(ev)
          /\ \A i \in 1..Len(ev) :
               ev[i].type = "error" =>
                 /\ i >= 3
                 /\ ev[1].type = "start"
                 /\ ev[2].type = "step" /\ ev[2].data.step.type = "thought"
                 /\ ev[i].data = [type |-> "error", message |-> "model error"]
          /\ gen[c].pc = "error" =>
               ev # <<>> /\ ev[Len(ev)].type = "error"
          /\ gen[c].pc = "done" =>
               ev # <<>> /\ ev[Len(ev)].type \in {"error", "complete"}

\* A streamed turn has ended with an error event after two token events:
\* the model stream failed on the way.
C2_Witness ==
  \E c \in Conns :
    /\ gen[c].pc = "done"
    /\ Sent(c)[Len(Sent(c))].type = "error"
    /\ Len(OfType(Sent(c), "token")) = 2

\* C10 as stated: a streamed turn for session id S creates S in the session
\* registry if absent and updates it with the turn's user message,
\* assistant message and artifact snapshots, as a POST /api/chat turn does.
C10_Original ==
  \A c \in Conns :
    (gen[c].pc = "done" /\ OfType(Sent(c), "complete") # <<>>) =>
      /\ conn[c].session_id \in DOMAIN sessions
      /\ \E i \in 1..Len(sessions[conn[c].session_id].messages) :
           /\ sessions[conn[c].session_id].messages[i].role = "user"
           /\ sessions[conn[c].session_id].messages[i].content =
                gen[c].user_message
      /\ \E i \in 1..Len(sessions[conn[c].session_id].messages) :
           /\ sessions[conn[c].session_id].messages[i].role = "assistant"
           /\ sessions[conn[c].session_id].messages[i].content =
                gen[c].final_message
      /\ Len(sessions[conn[c].session_id].artifacts) >=
           Len(OfType(Sent(c), "artifact"))

-----------------------------------------------------------------------------
(* Properties of the session registry (Spec) *)

\* s is a prefix of t.
IsPrefix(s, t) == Len(s) <= Len(t) /\ SubSeq(t, 1, Len(s)) = s

\* C11: a session that is in the registry keeps its created_at and its
\* messages and artifact snapshots (later turns only append to them) in
\* every step that leaves it in the registry, and a step in which it leaves
\* the registry is a DELETE /api/sessions/{id} of it.
C11_SessionKeptUntilDeleted ==
  [][\A s \in DOMAIN sessions :
       IF s \in DOMAIN sessions'
       THEN /\ sessions'[s].id = sessions[s].id
            /\ sessions'[s].created_at = sessions[s].created_at
            /\ IsPrefix(sessions[s].messages, sessions'[s].messages)
            /\ IsPrefix(sessions[s].artifacts, sessions'[s].artifacts)
       ELSE DeleteSession(s)]_vars

\* A session created at time 0 has had a second turn at time 1 and holds
\* the messages of both.
C11_Witness ==
  \E s \in DOMAIN sessions :
    /\ sessions[s].created_at = IsoFormat(0)
    /\ Len(sessions[s].messages) = 4
    /\ sessions[s].messages[3].timestamp = IsoFormat(1)

\* The operations of `result` that look a session up without creating it.
SessionLookups ==
  {"get_session", "delete_session", "get_session_artifacts", "get_artifact"}

\* C12: a call of get_session, delete_session, get_session_artifacts or
\* get_artifact with a session id that is not in the registry is answered
\* 404 and leaves the registry as it was.
C12_UnknownSessionNotFound ==
  [][(/\ result' # result
      /\ result'.op \in SessionLookups
      /\ result'.id \notin DOMAIN sessions)
       => /\ result'.value.status = 404
          /\ sessions' = sessions]_vars

\* A delete of a session id that is not in the registry was answered 404
\* while the registry holds another session.
C12_Witness ==
  /\ result.op = "delete_session"
  /\ result.value.status = 404
  /\ result.id \notin DOMAIN sessions
  /\ sessions # <<>>

-----------------------------------------------------------------------------
(* Properties of returned responses (SpecAgent) *)

\* C13 as stated: once execute has returned an AgentResponse, no step of
\* the agent that begins no new execute (add_artifact, the events of a
\* stream) changes the steps or the artifacts of that response.
C13_Original ==
  [][\A a \in DOMAIN returned :
       (returned[a].kind = "returned" /\ returned'[a].kind = "returned"
          /\ turn'[a].n = turn[a].n)
         => /\ returned'[a].response.steps = returned[a].response.steps
            /\ returned'[a].response.artifacts =
                 returned[a].response.artifacts]_vars

-----------------------------------------------------------------------------
(* Properties of the ConnectionManager (SpecSocket) *)

\* C15 as stated: every connection whose task has connected and has not
\* ended has its own socket and its own agent registered under its session
\* id, a turn it runs uses that agent, and every message its task has sent
\* went to its own socket.
C15_Original ==
  \A c \in Conns :
    conn[c].pc \in {"recv", "stream"} =>
      /\ conn[c].session_id \in DOMAIN manager.active_connections
      /\ manager.active_connections[conn[c].session_id] = c
      /\ conn[c].session_id \in DOMAIN manager.agents
      /\ manager.agents[conn[c].session_id] = c
      /\ conn[c].pc = "stream" => conn[c].agent = c
      /\ \A i \in 1..Len(events[c]) : events[c][i].to = c

-----------------------------------------------------------------------------
(* Properties of the artifact store (SpecStore) *)

\* C16: an update of an id that is in the store gives each metadata key
\* named in the call the given value and lets every other key keep its
\* value, replaces content and title when they are given (not None),
\* sets updated_at to the time of the call, leaves id, type, language,
\* session_id and created_at as they were, and returns the artifact.  (A
\* step of update is one whose result names update and the id.)
C16_UpdateMergesMetadata ==
  [][\A artifact_id \in StoreIds, args \in UpdateArgs :
       (/\ result'.op = "update"
        /\ result'.id = Uuid(artifact_id)
        /\ IndexOf(store, artifact_id) # 0
        /\ Update(artifact_id, args)) =>
         LET i   == IndexOf(store, artifact_id)
             old == store[i]
             new == store'[i]
             given == IF args.metadata = Absent THEN {}
                      ELSE DOMAIN args.metadata
         IN  /\ Len(store') = Len(store)
             /\ DOMAIN new.metadata = DOMAIN old.metadata \cup given
             /\ \A key \in given : new.metadata[key] = args.metadata[key]
             /\ \A key \in DOMAIN old.metadata \ given :
                  new.metadata[key] = old.metadata[key]
             /\ new.content = IF args.content # None THEN args.content
                              ELSE old.content
             /\ new.title = IF args.title # None THEN args.title
                            ELSE old.title
             /\ new.updated_at = clock
             /\ new.id = old.id
             /\ new.type = old.type
             /\ new.language = old.language
             /\ new.session_id = old.session_id
             /\ new.created_at = old.created_at
             /\ result'.value = new]_vars

\* An artifact created at time 0 with metadata key k was updated at time 1
\* with key j: it holds both keys.
C16_Witness ==
  /\ result.op = "update"
  /\ \E i \in 1..Len(store) :
       /\ Uuid(store[i].id) = result.id
       /\ store[i].created_at = 0
       /\ store[i].updated_at = 1
       /\ DOMAIN store[i].metadata = {"k", "j"}
       /\ store[i].metadata["k"] = "v0"
       /\ store[i].content = "c1"
       /\ store[i].title = "t0"

\* C17: get, update, delete and save_to_file of an id that is not in the
\* store leave the store as it is; delete returns false, the others None.
C17_UnknownArtifactAbsent ==
  [][\A artifact_id \in StoreIds :
       (/\ IndexOf(store, artifact_id) = 0
        /\ \/ Get(artifact_id)
           \/ \E args \in UpdateArgs : Update(artifact_id, args)
           \/ Delete(artifact_id)
           \/ SaveToFile(artifact_id))
         => /\ store' = store
            /\ IF result'.op = "delete" THEN result'.value = FALSE
               ELSE result'.value = Absent]_vars

\* An update of an id that is not in the store has returned None while the
\* store holds an artifact.
C17_Witness ==
  /\ result.op = "update"
  /\ result.value = Absent
  /\ \A i \in 1..Len(store) : Uuid(store[i].id) # result.id
  /\ store # <<>>

\* C18: a create returns an artifact whose id is none of the ids drawn
\* before (whether their artifacts are still stored or not), appends that
\* artifact to the store and leaves the artifacts stored before as they
\* were.
C18_CreateAddsFreshId ==
  [][\A n \in 1..Len(CreateArgs) :
       Create(CreateArgs[n]) =>
         /\ result'.value.id \notin 0..(nextId - 1)
         /\ \A i \in 1..Len(store) : store[i].id # result'.value.id
         /\ Len(store') = Len(store) + 1
         /\ SubSeq(store', 1, Len(store)) = store
         /\ store'[Len(store')] = result'.value
         /\ result'.value.session_id = CreateArgs[n].session_id
         /\ result'.value.content = CreateArgs[n].content]_vars

\* A second artifact was created after the first was deleted: its id is
\* not the id of the deleted one.
C18_Witness ==
  /\ result.op = "create"
  /\ nextId = 2
  /\ Len(store) = 1
  /\ store[1].id = 1

\* C19 as stated: clear_session(S) removes exactly the stored artifacts
\* whose session_id is S, returns their number, leaves the others as they
\* were, and afterwards list_all(S) is empty.
C19_Original ==
  [][\A session_id \in StoreSessionIds :
       ClearSession(session_id) =>
         LET InSession(a) == a.session_id = session_id
             Other(a) == a.session_id # session_id
         IN  /\ store' = SelectSeq(store, Other)
             /\ result'.value = Len(SelectSeq(store, InSession))
             /\ StoreListAll(store', session_id) = <<>>]_vars

-----------------------------------------------------------------------------
(* Properties of the artifact snapshots of a session (SpecSnapshots) *)

\* C14 as stated: no step changes a field of an artifact snapshot that a
\* session already holds, whether the step is a chat turn, an update or a
\* delete of the artifact store, or a write to an Artifact of the agent or
\* to its metadata.
C14_Original ==
  [][\A s \in DOMAIN sessions :
       s \in DOMAIN sessions' =>
         \A i \in 1..Len(sessions[s].artifacts) :
           /\ i <= Len(sessions'[s].artifacts)
           /\ sessions'[s].artifacts[i] = sessions[s].artifacts[i]]_vars

-----------------------------------------------------------------------------
(* src/backend/tools: the operations of DataAnalysisToolkit,               *)
(* DocumentToolkit and BrowserToolkit. A call of a collaborator (pandas,   *)
(* plotly, markdown, httpx, BeautifulSoup, duckduckgo_search) either       *)
(* returns or raises; a dataset is modelled by its column names, a         *)
(* document by its id, title, type and the fragments of its content.       *)

MaxDocs == 1
MaxContent == 2

Library == {"ok", "raises"}
Datasets == {"default", "out"}
DataFrames == {[columns |-> <<"a", "b">>], [columns |-> <<"a">>]}
DocIds == {"doc_1", "code_1", "doc_9"}

Payload(detail) == [raised |-> FALSE, error |-> FALSE, detail |-> detail]

ErrorPayload(detail) == [raised |-> FALSE, error |-> TRUE, detail |-> detail]

Raised(exception) == [raised |-> TRUE, error |-> FALSE, detail |-> exception]

Range(seq) == {seq[i] : i \in DOMAIN seq}

\* d[key] = value of a Python dict
SetItem(d, key, value) ==
  [k \in DOMAIN d \cup {key} |-> IF k = key THEN value ELSE d[k]]

\* the variables no tool operation touches
outside ==
  <<raw, extracted, clock, nextId, agents, sessions, responses, store, gen,
    events, returned, turn, conn, manager>>

ToolResult(op, id, value) == [op |-> op, id |-> id, value |-> value]

\* the try body of load_csv: read_csv raises, or the frame is stored
LoadCsv(name, df, lib) ==
  /\ result' = ToolResult("load_csv", name,
                          IF lib = "raises" THEN ErrorPayload("pandas")
                          ELSE Payload("summary"))
  /\ toolkits' = IF lib = "raises" THEN toolkits
                 ELSE [toolkits EXCEPT !.dataframes = SetItem(@, name, df)]
  /\ UNCHANGED outside

LoadJsonData(name, df, lib) ==
  /\ result' = ToolResult("load_json_data", name,
                          IF lib = "raises" THEN ErrorPayload("pandas")
                          ELSE Payload("summary"))
  /\ toolkits' = IF lib = "raises" THEN toolkits
                 ELSE [toolkits EXCEPT !.dataframes = SetItem(@, name, df)]
  /\ UNCHANGED outside

\* df[columns] of pandas raises KeyError when a listed column is missing
HasColumns(df, columns) == Range(columns) \subseteq Range(df.columns)

\* The lookup of the dataset answers with an error payload; the selection
\* df[columns] stands before the try statement; the statistics stand in it.
AnalyzeDataValue(dataframes, name, columns, lib) ==
  IF name \notin DOMAIN dataframes
  THEN ErrorPayload("not found")
  ELSE IF columns # <<>> /\ ~HasColumns(dataframes[name], columns)
  THEN Raised("KeyError")
  ELSE IF lib = "raises"
  THEN ErrorPayload("pandas")
  ELSE Payload("analysis")

AnalyzeData(name, columns, lib) ==
  /\ result' = ToolResult("analyze_data", name,
                          AnalyzeDataValue(toolkits.dataframes, name, columns,
                                           lib))
  /\ UNCHANGED <<toolkits, outside>>

\* an unknown column makes plotly raise in the try body
CreateChart(chart_type, name, x_column, lib) ==
  /\ result' = ToolResult("create_chart", name,
                          IF name \notin DOMAIN toolkits.dataframes
                          THEN ErrorPayload("not found")
                          ELSE IF chart_type \notin
                                    {"bar", "line", "scatter", "pie",
                                     "histogram", "box"}
                          THEN ErrorPayload("unknown")
                          ELSE IF \/ lib = "raises"
                                  \/ ~HasColumns(toolkits.dataframes[name],
                                                 <<x_column>>)
                          THEN ErrorPayload("plotly")
                          ELSE Payload("chart"))
  /\ UNCHANGED <<toolkits, outside>>

\* output_name = "" stands for an output_name that is not given
FilterData(name, output_name, lib) ==
  /\ result' = ToolResult("filter_data", name,
                          IF name \notin DOMAIN toolkits.dataframes
                          THEN ErrorPayload("not found")
                          ELSE IF lib = "raises" THEN ErrorPayload("pandas")
                          ELSE Payload("filtered"))
  /\ toolkits' =
       IF name \in DOMAIN toolkits.dataframes /\ lib = "ok"
          /\ output_name # ""
       THEN [toolkits EXCEPT !.dataframes = SetItem(@, output_name, @[name])]
       ELSE toolkits
  /\ UNCHANGED outside

\* groupby(group_by).agg(aggregations).reset_index(): the grouping columns
\* followed by the aggregated one; a column the frame lacks raises in the
\* try body
AggregateDataOk(dataframes, name, group_by, column, lib) ==
  /\ name \in DOMAIN dataframes
  /\ lib = "ok"
  /\ HasColumns(dataframes[name], group_by \o <<column>>)

AggregateData(name, group_by, column, output_name, lib) ==
  /\ result' = ToolResult("aggregate_data", name,
                          IF name \notin DOMAIN toolkits.dataframes
                          THEN ErrorPayload("not found")
                          ELSE IF AggregateDataOk(toolkits.dataframes, name,
                                                  group_by, column, lib)
                          THEN Payload("aggregated")
                          ELSE ErrorPayload("pandas"))
  /\ toolkits' =
       IF /\ AggregateDataOk(toolkits.dataframes, name, group_by, column, lib)
          /\ output_name # ""
       THEN [toolkits EXCEPT !.dataframes =
               SetItem(@, output_name, [columns |-> group_by \o <<column>>])]
       ELSE toolkits
  /\ UNCHANGED outside

DescribeData(name, lib) ==
  /\ result' = ToolResult("describe_data", name,
                          IF name \notin DOMAIN toolkits.dataframes
                          THEN ErrorPayload("not found")
                          ELSE IF lib = "raises" THEN ErrorPayload("pandas")
                          ELSE Payload("description"))
  /\ UNCHANGED <<toolkits, outside>>

Raises == [raises |-> TRUE]

\* One operation of transform_data on the working copy: the frame it
\* yields, or Raises. rename ignores a column that does not exist; drop,
\* fillna and astype raise KeyError on one; an operation of another type
\* is skipped.
ApplyOperation(df, op) ==
  IF op.type = "rename"
  THEN [columns |-> [i \in DOMAIN df.columns |->
                       IF df.columns[i] = op.old THEN op.new
                       ELSE df.columns[i]]]
  ELSE IF op.type = "drop"
  THEN IF Range(op.columns) \subseteq Range(df.columns)
       THEN [columns |-> SelectSeq(df.columns,
                               LAMBDA c : c \notin Range(op.columns))]
       ELSE Raises
  ELSE IF op.type \in {"fillna", "astype"}
  THEN IF op.column \in Range(df.columns) THEN df ELSE Raises
  ELSE df

RECURSIVE ApplyOperations(_, _)
ApplyOperations(df, operations) ==
  IF operations = <<>> THEN df
  ELSE IF ApplyOperation(df, Head(operations)) = Raises THEN Raises
  ELSE ApplyOperations(ApplyOperation(df, Head(operations)),
                       Tail(operations))

Operations ==
  { <<>>,
    <<[type |-> "rename", old |-> "a", new |-> "c"],
      [type |-> "drop", columns |-> <<"zz">>]>>,
    <<[type |-> "drop", columns |-> <<"b">>],
      [type |-> "fillna", column |-> "a"]>>,
    <<[type |-> "sort"], [type |-> "astype", column |-> "b"]>> }

\* transform_data working on the stored frame itself instead of a copy: the
\* operations before a failing one stay applied
RECURSIVE AppliedBeforeFailure(_, _)
AppliedBeforeFailure(df, operations) ==
  IF operations = <<>> THEN df
  ELSE IF ApplyOperation(df, Head(operations)) = Raises THEN df
  ELSE AppliedBeforeFailure(ApplyOperation(df, Head(operations)),
                            Tail(operations))

TransformDataInPlace(name, operations, output_name) ==
  IF name \notin DOMAIN toolkits.dataframes
  THEN /\ result' = ToolResult("transform_data", name,
                               ErrorPayload("not found"))
       /\ UNCHANGED <<toolkits, outside>>
  ELSE \E df \in {ApplyOperations(toolkits.dataframes[name], operations)} :
         /\ result' = ToolResult("transform_data", name,
                                 IF df = Raises THEN ErrorPayload("KeyError")
                                 ELSE Payload("transformed"))
         /\ toolkits' =
              [toolkits EXCEPT !.dataframes =
                 SetItem(@, IF df # Raises /\ output_name # ""
                            THEN output_name ELSE name,
                         AppliedBeforeFailure(toolkits.dataframes[name],
                                              operations))]
         /\ UNCHANGED outside

\* The working copy is stored, under output_name or else under name, after
\* the last operation only.
TransformData(name, operations, output_name) ==
  IF name \notin DOMAIN toolkits.dataframes
  THEN /\ result' = ToolResult("transform_data", name,
                               ErrorPayload("not found"))
       /\ UNCHANGED <<toolkits, outside>>
  ELSE \E df \in {ApplyOperations(toolkits.dataframes[name], operations)} :
         /\ result' = ToolResult("transform_data", name,
                                 IF df = Raises THEN ErrorPayload("KeyError")
                                 ELSE Payload("transformed"))
         /\ toolkits' =
              IF df = Raises THEN toolkits
              ELSE [toolkits EXCEPT !.dataframes =
                      SetItem(@, IF output_name # "" THEN output_name
                                 ELSE name, df)]
         /\ UNCHANGED outside

ExportData(name, format, lib) ==
  /\ result' = ToolResult("export_data", name,
                          IF name \notin DOMAIN toolkits.dataframes
                          THEN ErrorPayload("not found")
                          ELSE IF format \notin {"csv", "json"}
                          THEN ErrorPayload("unknown")
                          ELSE IF lib = "raises" THEN ErrorPayload("pandas")
                          ELSE Payload(format))
  /\ UNCHANGED <<toolkits, outside>>

\* template = "" stands for a template that is not given; _apply_template
\* puts its frame around the content
CreateDocument(title, content, template) ==
  /\ Cardinality(DOMAIN toolkits.documents) < MaxDocs
  /\ \E doc_id \in {"doc_" \o ToString(Cardinality(DOMAIN toolkits.documents)
                                        + 1)} :
       /\ result' = ToolResult("create_document", doc_id, Payload("created"))
       /\ toolkits' =
            [toolkits EXCEPT !.documents =
               SetItem(@, doc_id,
                       [id |-> doc_id, title |-> title, type |-> "markdown",
                        content |-> IF template # ""
                                    THEN <<template, content>>
                                    ELSE <<content>>])]
  /\ UNCHANGED outside

\* new_content = "" stands for a new_content that is not given
EditDocument(doc_id, new_content, append) ==
  IF doc_id \notin DOMAIN toolkits.documents
  THEN /\ result' = ToolResult("edit_document", doc_id,
                               ErrorPayload("not found"))
       /\ UNCHANGED <<toolkits, outside>>
  ELSE /\ (append /\ new_content # "")
          => Len(toolkits.documents[doc_id].content) < MaxContent
       /\ result' = ToolResult("edit_document", doc_id, Payload("updated"))
       /\ toolkits' =
            [toolkits EXCEPT !.documents[doc_id].content =
               IF new_content = "" THEN @
               ELSE IF append THEN Append(@, new_content)
               ELSE <<new_content>>]
       /\ UNCHANGED outside

AddSection(doc_id, heading) ==
  IF doc_id \notin DOMAIN toolkits.documents
  THEN /\ result' = ToolResult("add_section", doc_id,
                               ErrorPayload("not found"))
       /\ UNCHANGED <<toolkits, outside>>
  ELSE /\ Len(toolkits.documents[doc_id].content) < MaxContent
       /\ result' = ToolResult("add_section", doc_id,
                               Payload("section_added"))
       /\ toolkits' =
            [toolkits EXCEPT !.documents[doc_id].content = Append(@, heading)]
       /\ UNCHANGED outside

FormatContent(text, format_type) ==
  /\ result' = ToolResult("format_content", text,
                          IF format_type \in
                               {"bold", "italic", "code", "code_block",
                                "quote", "list", "numbered_list", "link",
                                "heading"}
                          THEN Payload(format_type)
                          ELSE ErrorPayload("unknown"))
  /\ UNCHANGED <<toolkits, outside>>

GenerateTable(headers) ==
  /\ result' = ToolResult("generate_table", "",
                          Payload(ToString(Len(headers))))
  /\ UNCHANGED <<toolkits, outside>>

GetDocument(doc_id) ==
  /\ result' = ToolResult("get_document", doc_id,
                          IF doc_id \notin DOMAIN toolkits.documents
                          THEN ErrorPayload("not found")
                          ELSE Payload(toolkits.documents[doc_id].title))
  /\ UNCHANGED <<toolkits, outside>>

ListDocuments ==
  /\ result' = ToolResult("list_documents", "",
                          Payload(ToString(Cardinality(DOMAIN
                                             toolkits.documents))))
  /\ UNCHANGED <<toolkits, outside>>

\* The lookup of the document answers with an error payload; the call of
\* markdown.markdown for the html format stands in no try statement.
ExportDocumentValue(documents, doc_id, format, lib) ==
  IF doc_id \notin DOMAIN documents
  THEN ErrorPayload("not found")
  ELSE IF format = "html" /\ lib = "raises"
  THEN Raised("markdown")
  ELSE Payload(format)

ExportDocument(doc_id, format, lib) ==
  /\ result' = ToolResult("export_document", doc_id,
                          ExportDocumentValue(toolkits.documents, doc_id,
                                              format, lib))
  /\ UNCHANGED <<toolkits, outside>>

CreateCodeFile(filename, code) ==
  /\ Cardinality(DOMAIN toolkits.documents) < MaxDocs
  /\ \E doc_id \in {"code_" \o ToString(Cardinality(DOMAIN toolkits.documents)
                                         + 1)} :
       /\ result' = ToolResult("create_code_file", doc_id, Payload("created"))
       /\ toolkits' =
            [toolkits EXCEPT !.documents =
               SetItem(@, doc_id,
                       [id |-> doc_id, title |-> filename, type |-> "code",
                        content |-> <<code>>])]
  /\ UNCHANGED outside

\* the search stands in the try body
WebSearch(query, lib) ==
  /\ result' = ToolResult("web_search", query,
                          IF lib = "raises" THEN ErrorPayload("DDGS")
                          ELSE Payload("results"))
  /\ UNCHANGED <<toolkits, outside>>

\* httpx.get, raise_for_status and BeautifulSoup stand in the try body
VisitPage(url, lib) ==
  /\ result' = ToolResult("visit_page", url,
                          IF lib = "raises" THEN ErrorPayload("httpx")
                          ELSE Payload("page"))
  /\ UNCHANGED <<toolkits, outside>>

ExtractContent(url, lib) ==
  /\ result' = ToolResult("extract_content", url,
                          IF lib = "raises" THEN ErrorPayload("httpx")
                          ELSE Payload("content"))
  /\ UNCHANGED <<toolkits, outside>>

TakeScreenshot(url) ==
  /\ result' = ToolResult("take_screenshot", url,
                          Payload("screenshot_requested"))
  /\ UNCHANGED <<toolkits, outside>>

ClickElement(selector) ==
  /\ result' = ToolResult("click_element", selector,
                          Payload("click_requested"))
  /\ UNCHANGED <<toolkits, outside>>

FillForm(selector) ==
  /\ result' = ToolResult("fill_form", selector, Payload("fill_requested"))
  /\ UNCHANGED <<toolkits, outside>>

GetPageLinks(url, lib) ==
  /\ result' = ToolResult("get_page_links", url,
                          IF lib = "raises" THEN ErrorPayload("httpx")
                          ELSE Payload("links"))
  /\ UNCHANGED <<toolkits, outside>>

NextTools ==
  \/ \E name \in Datasets, df \in DataFrames, lib \in Library :
       LoadCsv(name, df, lib)
  \/ \E name \in Datasets, df \in DataFrames, lib \in Library :
       LoadJsonData(name, df, lib)
  \/ \E name \in Datasets, columns \in {<<>>, <<"a">>, <<"a", "zz">>},
        lib \in Library :
       AnalyzeData(name, columns, lib)
  \/ \E chart_type \in {"bar", "radar"}, name \in Datasets,
        x_column \in {"a", "c"},
        lib \in Library :
       CreateChart(chart_type, name, x_column, lib)
  \/ \E name \in Datasets, output_name \in {"", "out"}, lib \in Library :
       FilterData(name, output_name, lib)
  \/ \E name \in Datasets, column \in {"b", "c"}, output_name \in {"", "out"},
        lib \in Library :
       AggregateData(name, <<"a">>, column, output_name, lib)
  \/ \E name \in Datasets, lib \in Library : DescribeData(name, lib)
  \/ \E name \in Datasets, operations \in Operations,
        output_name \in {"", "out"} :
       TransformData(name, operations, output_name)
  \/ \E name \in Datasets, format \in {"csv", "json", "xml"}, lib \in Library :
       ExportData(name, format, lib)
  \/ \E template \in {"", "report"} : CreateDocument("t", "x", template)
  \/ \E doc_id \in DocIds, new_content \in {"", "y"}, append \in BOOLEAN :
       EditDocument(doc_id, new_content, append)
  \/ \E doc_id \in DocIds : AddSection(doc_id, "h")
  \/ \E format_type \in {"bold", "heading", "blink"} :
       FormatContent("x", format_type)
  \/ GenerateTable(<<"h1", "h2">>)
  \/ \E doc_id \in DocIds : GetDocument(doc_id)
  \/ ListDocuments
  \/ \E doc_id \in DocIds, format \in {"markdown", "html", "text"},
        lib \in Library :
       ExportDocument(doc_id, format, lib)
  \/ CreateCodeFile("f.py", "x")
  \/ \E lib \in Library : WebSearch("q", lib)
  \/ \E url \in {"http://a"}, lib \in Library : VisitPage(url, lib)
  \/ \E url \in {"http://a"}, lib \in Library : ExtractContent(url, lib)
  \/ \E url \in {"http://a"} : TakeScreenshot(url)
  \/ ClickElement("#go")
  \/ FillForm("#q")
  \/ \E url \in {"http://a"}, lib \in Library : GetPageLinks(url, lib)

SpecTools == Init /\ [][NextTools]_vars

\* C20: every operation of the three toolkits returns a payload, an error
\* payload when its lookup or its collaborator fails; none raises to its
\* caller.
C20_Original ==
  result.op \in {"load_csv", "load_json_data", "analyze_data",
                 "create_chart", "filter_data", "aggregate_data",
                 "describe_data", "transform_data", "export_data",
                 "create_document", "edit_document", "add_section",
                 "format_content", "generate_table", "get_document",
                 "list_documents", "export_document", "create_code_file",
                 "web_search", "visit_page", "extract_content",
                 "take_screenshot", "click_element", "fill_form",
                 "get_page_links"}
    => ~result.value.raised

-----------------------------------------------------------------------------
(* Properties of the steps of a turn (SpecAgent) *)

\* C22: the steps of an AgentResponse that execute returned with
\* success=True are one THOUGHT step followed by one FINAL_ANSWER step whose
\* content is the returned message, and nothing else.
C22_SuccessfulTurnSteps ==
  \A a \in DOMAIN returned :
    (returned[a].kind = "returned" /\ returned[a].response.success) =>
      LET steps == returned[a].response.steps
      IN  /\ Len(steps) = 2
          /\ steps[1].type = "thought"
          /\ steps[2].type = "final_answer"
          /\ steps[2].content = returned[a].response.message

\* The second turn of an agent succeeded, with an artifact extracted from
\* the reply and a message that is not empty.
C22_Witness ==
  \E a \in DOMAIN returned :
    /\ returned[a].kind = "returned"
    /\ returned[a].response.success
    /\ returned[a].response.message # <<>>
    /\ returned[a].response.artifacts # <<>>
    /\ turn[a].n = 2

-----------------------------------------------------------------------------
(* Properties of the artifacts of a chat turn (Spec) *)

\* C23: after a chat turn whose model call returned a text, the agent holds
\* one artifact per tag match of that text, in the order of the matches;
\* the i-th has the type and the stripped content of the i-th match and its
\* title, or "Artifact i" when the match has none, whatever the turns
\* before held.
C23_ArtifactsInOrderOfAppearance ==
  (responses.n > 0 /\ responses.reply.kind = "content") =>
    LET matches   == FindAll(responses.reply.content)
        artifacts == agents["shared"].artifacts
    IN  /\ Len(artifacts) = Len(matches)
        /\ \A i \in 1..Len(matches) :
             /\ artifacts[i].id = responses.first_id + i
             /\ artifacts[i].type = matches[i].type
             /\ artifacts[i].content = Strip(matches[i].content)
             /\ artifacts[i].title =
                  IF matches[i].title # <<>> THEN matches[i].title
                  ELSE AutoTitle(i)

\* The second turn extracted an artifact with a title and then one without,
\* which is "Artifact 2", after a first turn that held artifacts too.
C23_Witness ==
  /\ responses.n = 2
  /\ responses.first_id >= 3
  /\ Len(agents["shared"].artifacts) = 2
  /\ agents["shared"].artifacts[1].title = <<"s">>
  /\ agents["shared"].artifacts[2].title = AutoTitle(2)

-----------------------------------------------------------------------------
(* Properties of list_all (SpecStore) *)

\* C25 as stated: list_all() returns every stored artifact once, newest
\* first, and list_all(S) returns the stored artifacts whose session_id is
\* S, and no other, once each and newest first.
C25_Original ==
  [][\A S \in StoreSessionIds \cup {None} :
       ListAll(S) =>
         LET listed == result'.value
             InS(a) == S = None \/ a.session_id = S
             wanted == SelectSeq(store, InS)
         IN  /\ Len(listed) = Len(wanted)
             /\ {listed[i].id : i \in 1..Len(listed)} =
                  {wanted[i].id : i \in 1..Len(wanted)}
             /\ \A i \in 1..Len(listed) :
                  \E j \in 1..Len(store) : listed[i] = store[j]
             /\ \A i, j \in 1..Len(listed) :
                  i < j => listed[i].created_at >= listed[j].created_at]_vars

(***************************************************************************)
(* Properties of transform_data (SpecTools)                                *)
(***************************************************************************)

\* C30 as stated: transform_data either applies every listed operation and
\* stores the result (under output_name, else over the source name), or
\* returns an error payload and leaves every stored dataset as it was.
C30_Original ==
  [][\A name \in IF result'.op = "transform_data" THEN Datasets ELSE {},
        operations \in Operations, output_name \in Datasets \cup {""} :
       TransformData(name, operations, output_name) =>
         \/ /\ result'.value.error
            /\ toolkits' = toolkits
         \/ /\ ~result'.value.error
            /\ \A i \in 1..Len(operations) :
                 operations[i].type \in {"rename", "drop", "fillna", "astype"}
            /\ toolkits'.dataframes =
                 SetItem(toolkits.dataframes,
                         IF output_name # "" THEN output_name ELSE name,
                         ApplyOperations(toolkits.dataframes[name],
                                         operations))]_vars

\* C30: transform_data either runs through the whole list, applying in order
\* every operation of type rename, drop, fillna or astype and skipping an
\* operation of any other type, and stores the result (under output_name,
\* else over the source name), or returns an error payload and leaves every
\* stored dataset, the source included, as it was before the call: a failure
\* at the k-th operation leaves no effect of operations 1..k-1.  (Only a
\* step whose result names transform_data can be a step of it.)
C30_TransformDataAllOrNothing ==
  [][\A name \in IF result'.op = "transform_data" THEN Datasets ELSE {},
        operations \in Operations, output_name \in Datasets \cup {""} :
       TransformData(name, operations, output_name) =>
         \/ /\ result'.value.error
            /\ toolkits' = toolkits
         \/ /\ ~result'.value.error
            /\ name \in DOMAIN toolkits.dataframes
            /\ ApplyOperations(toolkits.dataframes[name], operations) # Raises
            /\ toolkits'.documents = toolkits.documents
            /\ toolkits'.dataframes =
                 SetItem(toolkits.dataframes,
                         IF output_name # "" THEN output_name ELSE name,
                         ApplyOperations(toolkits.dataframes[name],
                                         operations))]_vars

\* transform_data has failed at its second operation, after a rename of
\* column a, and the source still has its columns a and b
C30_Witness ==
  /\ result.op = "transform_data"
  /\ result.value.error
  /\ result.value.detail = "KeyError"
  /\ result.id \in DOMAIN toolkits.dataframes
  /\ toolkits.dataframes[result.id].columns = <<"a", "b">>

(***************************************************************************)
(* Properties of the session registry under chat turns and deletes (Spec)  *)
(***************************************************************************)

\* C27: in every reachable state of the session registry, whatever the order
\* of chat turns and session deletes, each session's history has no more
\* assistant messages than user messages, and every assistant message stands
\* directly behind a user message, the one of its own turn.
C27_AssistantFollowsUser ==
  \A id \in DOMAIN sessions :
    LET messages == sessions[id].messages
        NumberOf(role) ==
          Cardinality({i \in 1..Len(messages) : messages[i].role = role})
    IN  /\ NumberOf("assistant") <= NumberOf("user")
        /\ \A i \in 1..Len(messages) :
             messages[i].role = "assistant" =>
               /\ i > 1
               /\ messages[i - 1].role = "user"

\* Two turns have been answered, the second one with a ChatResponse on
\* session s1, and after a delete s1 is the only session and holds the
\* messages of one turn.
C27_Witness ==
  /\ responses.n = 2
  /\ responses.status = 200
  /\ responses.message.session_id = "s1"
  /\ DOMAIN sessions = {"s1"}
  /\ Len(sessions["s1"].messages) = 2
  /\ sessions["s1"].messages[2].role = "assistant"

(***************************************************************************)
(* Properties of the frames that start no turn (SpecSocket)                *)
(***************************************************************************)

\* C21 as stated: a frame that is no valid JSON yields an error event on
\* its connection and does not close it: the task is reading again, and the
\* agent a later message of the connection is processed with is the agent
\* made for the connection.
C21_Original ==
  [][\A c \in Conns :
       WsReceive(c, [kind |-> "invalid", content |-> ""]) =>
         /\ conn'[c].pc = "recv"
         /\ events'[c] =
              <<[to  |-> c,
                 msg |-> [type |-> "error",
                          message |-> "Invalid JSON format"]]>>
         /\ conn[c].session_id \in DOMAIN manager'.agents
         /\ manager'.agents[conn[c].session_id] = c]_vars

\* C24 as stated: a message frame with an empty or missing content is
\* answered with an error event on its connection; no turn is started for it
\* (nothing else is sent, the agents' buffers are as they were) and the
\* connection stays open, its task reading again.
C24_Original ==
  [][\A c \in Conns :
       WsReceive(c, [kind |-> "message", content |-> ""]) =>
         /\ events'[c] =
              <<[to  |-> c,
                 msg |-> [type |-> "error", message |-> "Empty message"]]>>
         /\ agents' = agents
         /\ turn' = turn
         /\ ~Suspended(gen'[c])
         /\ conn'[c].pc = "recv"
         /\ conn'[c].open]_vars

(***************************************************************************)
(* Properties of the frames sent while a turn is streaming (SpecFrames)    *)
(***************************************************************************)

\* C26: the task of a connection reads a frame only while it waits in
\* receive_text with no generator suspended, and when it has run a turn
\* since the frame before, the last message it has sent is the terminal
\* event (complete or error) of that turn, so two turns of one connection
\* never overlap; while a turn is streaming, no pong or cancelled message is
\* sent, whatever frames wait; a ping or cancel frame sent meanwhile is
\* answered by the read that follows the turn; and a turn that ends with its
\* complete event has sent its start event and one token event for every
\* fragment pulled from the model stream.
C26_FramesWaitForTheTurn ==
  [][\A c \in Conns :
       /\ conn'[c].frames # conn[c].frames =>
            /\ conn[c].pc = "recv"
            /\ ~Suspended(gen[c])
            /\ gen[c].pc # "idle" =>
                 /\ Sent(c) # <<>>
                 /\ Sent(c)[Len(Sent(c))].type \in {"complete", "error"}
            /\ (conn[c].inbox # <<>> /\ conn'[c].pc = "recv"
                /\ Head(conn[c].inbox).kind \in {"ping", "cancel"}) =>
                 /\ Len(events'[c]) = 1
                 /\ events'[c][1].msg.type =
                      IF Head(conn[c].inbox).kind = "ping" THEN "pong"
                      ELSE "cancelled"
       /\ conn'[c].pc = "stream" =>
            \A i \in 1..Len(events'[c]) :
              events'[c][i].msg.type \notin {"pong", "cancelled"}
       /\ (gen'[c].pc = "done" /\ events'[c] # <<>>
           /\ events'[c][Len(events'[c])].msg.type = "complete") =>
            /\ events'[c][1].msg.type = "start"
            /\ Len(SelectSeq(events'[c], LAMBDA e : e.msg.type = "token")) =
                 gen'[c].pulled]_vars

\* A cancel frame was sent while the turn of the connection was streaming;
\* the turn has run to its FINAL_ANSWER step and the frame was read and
\* answered afterwards.
C26_Witness ==
  /\ conn["c1"].pc = "recv"
  /\ conn["c1"].frames = MaxFrames + 1
  /\ Len(events["c1"]) = 1
  /\ events["c1"][1].msg.type = "cancelled"
  /\ Len(agents["c1"].execution_steps) = 2
  /\ agents["c1"].execution_steps[2].type = "final_answer"

=============================================================================
